---- MODULE Spec2Model ----
(***************************************************************************)
(* avosetta: the html! template compiler (packages/avosetta-macros) and    *)
(* the rendering library its generated code calls (packages/avosetta).     *)
(*                                                                         *)
(* A Rust string is a sequence of one-character strings.  An Option<T> is  *)
(* a sequence of length 0 (None) or 1 (Some).  A proc_macro2 TokenStream   *)
(* built by the generator is a sequence of token records.                  *)
(***************************************************************************)
EXTENDS Integers, Sequences, FiniteSets, TLC

VARIABLES
    group,      \* generator: the Group handed to Generate::to_token_stream
    work,       \* generator: the Stream method calls generate() still has to make
    streams,    \* generator: the Streams alive; the last one is the closure's `stream`
    tokens,     \* generator: the token stream inside the generated closure
    env,        \* rendering: the values of the host variables when the closure runs
    out,        \* rendering: the caller's String
    pc,         \* generator/rendering: "generate", "emit", "render", "done"
    e_in,       \* escaping: the string both escapers are given
    e_ct,       \* escaping: Stream::push_escaped's buffer
    e_rt,       \* escaping: the String after <&str as Html>::write
    e_pc,       \* escaping: which escapers have run
    p_input,    \* parser: the tokens of the ParseStream not yet consumed
    p_nodes,    \* parser: Group::parse's Vec `v`
    p_state,    \* parser: "parsing", "ok", "error"
    p_err,      \* parser: the syn::Error the parse returned, if any
    found,      \* crate name: what proc_macro_crate::crate_name("avosetta") returns
    CRATE_NAME, \* crate name: the OnceLock<Box<str>> of CrateIdent::to_tokens
    c_inits,    \* crate name: how often the OnceLock has been set
    c_pc,       \* crate name: where each concurrent user of CrateIdent is
    c_seen      \* crate name: the names each concurrent user has been handed

genVars == <<group, work, streams, tokens, env, out, pc>>
escVars == <<e_in, e_ct, e_rt, e_pc>>
parseVars == <<p_input, p_nodes, p_state, p_err>>
crateVars == <<found, CRATE_NAME, c_inits, c_pc, c_seen>>
vars == <<group, work, streams, tokens, env, out, pc, e_in, e_ct, e_rt, e_pc,
          p_input, p_nodes, p_state, p_err, found, CRATE_NAME, c_inits, c_pc, c_seen>>

(***************************************************************************)
(* Bounds of the model.                                                    *)
(***************************************************************************)
MaxLen == 3        \* longest string given to the two escapers
MaxNodes == 2      \* most Nodes in the top-level Group
MaxAttrs == 2      \* most Attrs in a bracketed attribute list
MaxIter == 2       \* most items in the iterable of a `for`
MaxToks == 4       \* most token trees in the parser's input
MaxUsers == 2      \* most threads that expand CrateIdent at the same time
MaxUses == 2       \* most CrateIdent::to_tokens calls of one thread

RECURSIVE SeqsUpTo(_, _)
SeqsUpTo(S, n) ==
    IF n = 0 THEN {<<>>}
    ELSE LET shorter == SeqsUpTo(S, n - 1)
         IN  shorter \cup {Append(s, x) : s \in {t \in shorter : Len(t) = n - 1}, x \in S}

RECURSIVE Concat(_)
Concat(ss) == IF ss = <<>> THEN <<>> ELSE Head(ss) \o Concat(Tail(ss))

Some(x) == <<x>>
None == <<>>

(***************************************************************************)
(* lib.rs: the rendering library.  A value carries its Rust type in `t`.   *)
(***************************************************************************)
Amp == <<"&", "a", "m", "p", ";">>
Lt == <<"&", "l", "t", ";">>
Gt == <<"&", "g", "t", ";">>
Apos == <<"&", "a", "p", "o", "s", ";">>
Quot == <<"&", "q", "u", "o", "t", ";">>

\* impl Html for char without the arm for the apostrophe
WriteCharNoApos(ch, s) ==
    CASE ch = "&" -> s \o Amp
      [] ch = "<" -> s \o Lt
      [] ch = ">" -> s \o Gt
      [] ch = "\"" -> s \o Quot
      [] OTHER -> Append(s, ch)

\* impl Html for char
WriteChar(ch, s) ==
    CASE ch = "&" -> s \o Amp
      [] ch = "<" -> s \o Lt
      [] ch = ">" -> s \o Gt
      [] ch = "'" -> s \o Apos
      [] ch = "\"" -> s \o Quot
      [] OTHER -> Append(s, ch)

\* impl Html for &str
RECURSIVE WriteStr(_, _)
WriteStr(str, s) ==
    IF str = <<>> THEN s ELSE WriteStr(Tail(str), WriteChar(Head(str), s))

\* impl Html for bool
WriteBool(b, s) == IF b THEN s \o <<"t", "r", "u", "e">> ELSE s \o <<"f", "a", "l", "s", "e">>

\* itoa::Buffer::format
Digit(d) == CASE d = 0 -> "0" [] d = 1 -> "1" [] d = 2 -> "2" [] d = 3 -> "3" [] d = 4 -> "4"
              [] d = 5 -> "5" [] d = 6 -> "6" [] d = 7 -> "7" [] d = 8 -> "8" [] d = 9 -> "9"

RECURSIVE Itoa(_)
Itoa(n) ==
    IF n < 0 THEN <<"-">> \o Itoa(0 - n)
    ELSE IF n < 10 THEN <<Digit(n)>>
    ELSE Append(Itoa(n \div 10), Digit(n % 10))

\* __impl_html_integer
WriteInt(n, s) == s \o Itoa(n)

\* The value of the Rust string literal token `lit`: the characters between its
\* quotes with \" and \\ unescaped.
RECURSIVE Unescape(_)
Unescape(body) ==
    IF body = <<>> THEN <<>>
    ELSE IF Head(body) = "\\" /\ Len(body) >= 2
         THEN <<body[2]>> \o Unescape(Tail(Tail(body)))
         ELSE <<Head(body)>> \o Unescape(Tail(body))

LitValue(lit) == Unescape(SubSeq(lit, 2, Len(lit) - 1))

\* impl Html for Raw<&str>
WriteRaw(str, s) == s \o str

\* impl Html for Attr<&str, &str>, Attr<&str, char>, Attr<&str, Raw<&str>>, integers
WriteAttrPair(k, inner, s) == s \o k \o <<"=", "\"">> \o inner \o <<"\"">>

\* impl Html for Attr<&str, bool> written like the impl for an ordinary value
WriteAttrBoolAsPair(k, b, s) == WriteAttrPair(k, WriteBool(b, <<>>), s)

\* impl Html for Attr<&str, bool>
WriteAttrBool(k, b, s) == IF b THEN s \o k ELSE s

\* <Attr<&str, V> as Html>::write, by the type of V
RECURSIVE WriteAttr(_, _, _)
WriteAttr(k, v, s) ==
    CASE v.t = "str" -> WriteAttrPair(k, WriteStr(v.v, <<>>), s)
      [] v.t = "raw" -> WriteAttrPair(k, WriteRaw(v.v, <<>>), s)
      [] v.t = "char" -> WriteAttrPair(k, WriteChar(v.v, <<>>), s)
      [] v.t = "int" -> WriteAttrPair(k, Itoa(v.v), s)
      [] v.t = "bool" -> WriteAttrBool(k, v.v, s)
      [] v.t = "none" -> s
      [] v.t = "some" -> WriteAttr(k, v.v, s)

\* <T as Html>::write, by the type T of the value
RECURSIVE Write(_, _)
Write(v, s) ==
    CASE v.t = "unit" -> s
      [] v.t = "bool" -> WriteBool(v.v, s)
      [] v.t = "char" -> WriteChar(v.v, s)
      [] v.t = "str" -> WriteStr(v.v, s)
      [] v.t = "raw" -> WriteRaw(v.v, s)
      [] v.t = "int" -> WriteInt(v.v, s)
      [] v.t = "none" -> s
      [] v.t = "some" -> Write(v.v, s)
      [] v.t = "attr" -> WriteAttr(v.k, v.v, s)

(***************************************************************************)
(* generate.rs: Stream.  Tokens: [k |-> "write", e] is the statement       *)
(* `Html::write(e, __s);`, [k |-> "braced", body] is `{ body }`, and the   *)
(* control-flow headers are "if", "elseif", "else", "match", "arm", "for". *)
(***************************************************************************)
\* Stream::new
StreamNew == [stream |-> <<>>, buffer |-> <<>>]

\* Stream::push_char
PushChar(st, ch) == [st EXCEPT !.buffer = Append(@, ch)]

\* Stream::push_raw
PushRaw(st, s) == [st EXCEPT !.buffer = @ \o s]

\* Stream::push_escaped
RECURSIVE EscapeInto(_, _)
EscapeInto(buffer, s) ==
    IF s = <<>> THEN buffer
    ELSE LET ch == Head(s)
             pushed == CASE ch = "&" -> buffer \o Amp
                         [] ch = "<" -> buffer \o Lt
                         [] ch = ">" -> buffer \o Gt
                         [] ch = "'" -> buffer \o Apos
                         [] ch = "\"" -> buffer \o Quot
                         [] OTHER -> Append(buffer, ch)
         IN  EscapeInto(pushed, Tail(s))

PushEscaped(st, s) == [st EXCEPT !.buffer = EscapeInto(@, s)]

\* proc_macro2::Literal::string: the literal token, quoted, with " and \ escaped
RECURSIVE EscapeLiteral(_)
EscapeLiteral(s) ==
    IF s = <<>> THEN <<>>
    ELSE (IF Head(s) \in {"\"", "\\"} THEN <<"\\", Head(s)>> ELSE <<Head(s)>>)
         \o EscapeLiteral(Tail(s))

LiteralString(s) == <<"\"">> \o EscapeLiteral(s) \o <<"\"">>

\* quote! { #CrateIdent::Html::write(#CrateIdent::raw(#literal), __s); }
FlushToken(buffer) == [k |-> "write", e |-> [e |-> "raw", lit |-> LiteralString(buffer)]]

\* Stream::push_tokens without `self.buffer.clear()`
PushTokensKeepBuffer(st, expr) ==
    IF st.buffer # <<>>
    THEN [st EXCEPT !.stream = @ \o <<FlushToken(st.buffer), expr>>]
    ELSE [st EXCEPT !.stream = Append(@, expr)]

\* Stream::push_tokens with `expr.to_tokens` ahead of the flush
PushTokensDynamicFirst(st, expr) ==
    IF st.buffer # <<>>
    THEN [stream |-> st.stream \o <<expr, FlushToken(st.buffer)>>, buffer |-> <<>>]
    ELSE [st EXCEPT !.stream = Append(@, expr)]

\* Stream::push_tokens without the `!self.buffer.is_empty()` test
PushTokensAlwaysFlush(st, expr) ==
    [stream |-> st.stream \o <<FlushToken(st.buffer), expr>>, buffer |-> <<>>]

\* Stream::push_tokens
PushTokens(st, expr) ==
    IF st.buffer # <<>>
    THEN [stream |-> st.stream \o <<FlushToken(st.buffer), expr>>, buffer |-> <<>>]
    ELSE [st EXCEPT !.stream = Append(@, expr)]

\* Stream::push_write
PushWrite(st, expr) == PushTokens(st, [k |-> "write", e |-> expr])

\* impl ToTokens for Stream without the `!self.buffer.is_empty()` test
StreamToTokensAlways(st) == Append(st.stream, FlushToken(st.buffer))

\* impl ToTokens for Stream
StreamToTokens(st) ==
    IF st.buffer # <<>> THEN Append(st.stream, FlushToken(st.buffer)) ELSE st.stream

\* Stream::push_braced, had the text left in `inner` gone to the buffer of `self`
PushBracedMerged(st, inner) ==
    [PushTokens(st, [k |-> "braced", body |-> inner.stream]) EXCEPT !.buffer = inner.buffer]

\* Stream::push_braced, after the closure `f` has filled the new Stream `inner`
PushBraced(st, inner) == PushTokens(st, [k |-> "braced", body |-> StreamToTokens(inner)])

(***************************************************************************)
(* ast.rs.  Group: a sequence of Nodes.  Node: [k |-> "Literal", s],       *)
(* [k |-> "Interp", value], [k |-> "Element", element].  Element:          *)
(* [k |-> "Normal", name, attrs, inner], [k |-> "Void", name, attrs].      *)
(* Name: [k |-> "Lit" or "Ident", s].  Attrs: [inner |-> sequence of Attr]. *)
(* Attr: [name, value], value an Option of a host expression.  InterpValue:*)
(* [k |-> "Expr", expr], [k |-> "If", cond, then_branch, else_if,          *)
(* else_branch], [k |-> "Match", expr, arms], [k |-> "For", pat, expr,     *)
(* body].  Host expressions (syn::Expr): [e |-> "lit_str", s],             *)
(* [e |-> "lit_bool", b], [e |-> "var", n]; the generator adds             *)
(* [e |-> "raw", lit] and [e |-> "attr", name, value].                     *)
(*                                                                         *)
(* generate.rs: impl Generate.  X's generate(&self, stream) is the         *)
(* sequence of Stream method calls it makes on `stream`, in order; a       *)
(* push_braced(f) is "braced_new", the calls of f on the new Stream, then  *)
(* "braced_push".                                                          *)
(***************************************************************************)
CallChar(ch) == [op |-> "push_char", a |-> ch]
CallRaw(s) == [op |-> "push_raw", a |-> s]
CallEscaped(s) == [op |-> "push_escaped", a |-> s]
CallTokens(tok) == [op |-> "push_tokens", a |-> tok]
CallWrite(expr) == [op |-> "push_write", a |-> expr]
CallBraced(f) == <<[op |-> "braced_new"]>> \o f \o <<[op |-> "braced_push"]>>

\* impl Generate for LitStr
LitStrGenerate(s) == <<CallEscaped(s)>>

\* impl Generate for Name with push_escaped in place of push_raw
NameGenerateEscaped(name) == <<CallEscaped(name.s)>>

\* impl Generate for Name
NameGenerate(name) ==
    CASE name.k = "Lit" -> <<CallRaw(name.s)>>
      [] name.k = "Ident" -> <<CallRaw(name.s)>>

\* impl Generate for Attr with a literal `false` written like a literal `true`
AttrGenerateFalseAsTrue(attr) ==
    IF attr.value # None
    THEN LET expr == attr.value[1]
         IN  CASE expr.e = "lit_str" ->
                    <<CallChar(" ")>> \o NameGenerate(attr.name)
                    \o <<CallChar("="), CallChar("\""), CallEscaped(expr.s), CallChar("\"")>>
               [] expr.e = "lit_bool" -> <<CallChar(" ")>> \o NameGenerate(attr.name)
               [] OTHER ->
                    <<CallChar(" "),
                      CallWrite([e |-> "attr", name |-> attr.name.s, value |-> expr])>>
    ELSE <<CallChar(" ")>> \o NameGenerate(attr.name)

\* impl Generate for Attr
AttrGenerate(attr) ==
    IF attr.value # None
    THEN LET expr == attr.value[1]
         IN  CASE expr.e = "lit_str" ->
                    <<CallChar(" ")>> \o NameGenerate(attr.name)
                    \o <<CallChar("="), CallChar("\""), CallEscaped(expr.s), CallChar("\"")>>
               [] expr.e = "lit_bool" ->
                    IF expr.b THEN <<CallChar(" ")>> \o NameGenerate(attr.name) ELSE <<>>
               [] OTHER ->
                    <<CallChar(" "),
                      CallWrite([e |-> "attr", name |-> attr.name.s, value |-> expr])>>
    ELSE <<CallChar(" ")>> \o NameGenerate(attr.name)

\* impl Generate for Attrs
RECURSIVE AttrsGenerateFrom(_, _)
AttrsGenerateFrom(inner, i) ==
    IF i > Len(inner) THEN <<>>
    ELSE AttrGenerate(inner[i]) \o AttrsGenerateFrom(inner, i + 1)

AttrsGenerate(attrs) == AttrsGenerateFrom(attrs.inner, 1)

OptAttrsGenerate(attrs) == IF attrs # None THEN AttrsGenerate(attrs[1]) ELSE <<>>

\* impl Generate for Void with Normal's closing tag
VoidGenerateClosed(void) ==
    <<CallChar("<")>> \o NameGenerate(void.name) \o OptAttrsGenerate(void.attrs)
    \o <<CallChar(">"), CallChar("<"), CallChar("/")>> \o NameGenerate(void.name)
    \o <<CallChar(">")>>

\* impl Generate for Void
VoidGenerate(void) ==
    <<CallChar("<")>> \o NameGenerate(void.name) \o OptAttrsGenerate(void.attrs)
    \o <<CallChar(">")>>

RECURSIVE GroupGenerate(_), NodeGenerate(_), NormalGenerate(_), InterpValueGenerate(_),
          InterpIfGenerate(_), InterpElseIfsGenerate(_), InterpMatchGenerate(_),
          InterpArmsGenerate(_), InterpArmGenerate(_), InterpForGenerate(_)

\* impl Generate for Group
GroupGenerate(g) ==
    IF g = <<>> THEN <<>> ELSE NodeGenerate(Head(g)) \o GroupGenerate(Tail(g))

\* impl Generate for Element
ElementGenerate(element) ==
    CASE element.k = "Normal" -> NormalGenerate(element)
      [] element.k = "Void" -> VoidGenerate(element)

\* impl Generate for Node, impl Generate for Interp
NodeGenerate(node) ==
    CASE node.k = "Element" -> ElementGenerate(node.element)
      [] node.k = "Interp" -> InterpValueGenerate(node.value)
      [] node.k = "Literal" -> LitStrGenerate(node.s)

\* impl Generate for Normal
NormalGenerate(normal) ==
    <<CallChar("<")>> \o NameGenerate(normal.name) \o OptAttrsGenerate(normal.attrs)
    \o <<CallChar(">")>>
    \o (IF normal.inner # None THEN GroupGenerate(normal.inner[1]) ELSE <<>>)
    \o <<CallChar("<"), CallChar("/")>> \o NameGenerate(normal.name) \o <<CallChar(">")>>

\* impl Generate for InterpValue without the arm for a string literal
InterpValueGenerateNoLit(value) ==
    CASE value.k = "Match" -> InterpMatchGenerate(value)
      [] value.k = "If" -> InterpIfGenerate(value)
      [] value.k = "Expr" -> <<CallWrite(value.expr)>>
      [] value.k = "For" -> InterpForGenerate(value)

\* impl Generate for InterpValue
InterpValueGenerate(value) ==
    CASE value.k = "Match" -> InterpMatchGenerate(value)
      [] value.k = "If" -> InterpIfGenerate(value)
      [] value.k = "Expr" ->
            IF value.expr.e = "lit_str" THEN <<CallEscaped(value.expr.s)>>
            ELSE <<CallWrite(value.expr)>>
      [] value.k = "For" -> InterpForGenerate(value)

\* impl Generate for InterpMatch
InterpMatchGenerate(m) ==
    <<CallTokens([k |-> "match", e |-> m.expr])>> \o CallBraced(InterpArmsGenerate(m.arms))

InterpArmsGenerate(arms) ==
    IF arms = <<>> THEN <<>>
    ELSE InterpArmGenerate(Head(arms)) \o InterpArmsGenerate(Tail(arms))

\* impl Generate for InterpArmGroup
InterpArmGroupGenerate(g) == CallBraced(GroupGenerate(g))

\* impl Generate for InterpArmExpr
InterpArmExprGenerate(expr) ==
    CASE expr.k = "Group" -> InterpArmGroupGenerate(expr.group)
      [] expr.k = "Literal" -> LitStrGenerate(expr.s)

\* impl Generate for InterpArm, with a literal arm written without braces
InterpArmGenerateUnbraced(arm) ==
    IF arm.expr.k = "Literal"
    THEN <<CallTokens([k |-> "arm", p |-> arm.pat])>> \o LitStrGenerate(arm.expr.s)
    ELSE <<CallTokens([k |-> "arm", p |-> arm.pat])>>
         \o CallBraced(InterpArmExprGenerate(arm.expr))

\* impl Generate for InterpArm
InterpArmGenerate(arm) ==
    <<CallTokens([k |-> "arm", p |-> arm.pat])>> \o CallBraced(InterpArmExprGenerate(arm.expr))

\* impl Generate for InterpFor
InterpForGenerate(f) ==
    <<CallTokens([k |-> "for", p |-> f.pat, e |-> f.expr])>>
    \o CallBraced(GroupGenerate(f.body))

\* impl Generate for InterpElseIf
InterpElseIfGenerate(ei) ==
    <<CallTokens([k |-> "elseif", e |-> ei.cond])>> \o CallBraced(GroupGenerate(ei.group))

InterpElseIfsGenerate(eis) ==
    IF eis = <<>> THEN <<>>
    ELSE InterpElseIfGenerate(Head(eis)) \o InterpElseIfsGenerate(Tail(eis))

\* impl Generate for InterpElse
InterpElseGenerate(el) ==
    <<CallTokens([k |-> "else"])>> \o CallBraced(GroupGenerate(el.group))

\* impl Generate for InterpIf
InterpIfGenerate(i) ==
    <<CallTokens([k |-> "if", e |-> i.cond])>> \o CallBraced(GroupGenerate(i.then_branch))
    \o InterpElseIfsGenerate(i.else_if)
    \o (IF i.else_branch # None THEN InterpElseGenerate(i.else_branch[1]) ELSE <<>>)

(***************************************************************************)
(* Running the generated closure `move |__s: &mut String| { #stream }`:    *)
(* what the Rust statements in `tokens` do to the String, with the host    *)
(* variables bound as in `en`.  Lists are [t |-> "list", v].  Patterns:    *)
(* [p |-> "wild"] (_), [p |-> "lit", v] (a literal), [p |-> "bind", n].    *)
(* A token sequence that is not a sequence of Rust statements does not     *)
(* compile: CompileError marks it.                                         *)
(***************************************************************************)
CompileError == "compile_error!"

RECURSIVE Eval(_, _)
Eval(expr, en) ==
    CASE expr.e = "var" -> en[expr.n]
      [] expr.e = "lit_str" -> [t |-> "str", v |-> expr.s]
      [] expr.e = "lit_bool" -> [t |-> "bool", v |-> expr.b]
      [] expr.e = "raw" -> [t |-> "raw", v |-> LitValue(expr.lit)]
      [] expr.e = "attr" -> [t |-> "attr", k |-> expr.name, v |-> Eval(expr.value, en)]

Matches(pat, v) == pat.p \in {"wild", "bind"} \/ (pat.p = "lit" /\ pat.v = v)

Bind(pat, v, en) ==
    IF pat.p = "bind"
    THEN [n \in DOMAIN en \cup {pat.n} |-> IF n = pat.n THEN v ELSE en[n]]
    ELSE en

IsHeader(toks, i, k) == i <= Len(toks) /\ toks[i].k = k
IsBlock(toks, i) == i <= Len(toks) /\ toks[i].k = "braced"

\* the tokens after the else-if / else blocks that continue an if chain at i
RECURSIVE AfterChain(_, _)
AfterChain(toks, i) ==
    IF IsHeader(toks, i, "elseif") /\ IsBlock(toks, i + 1) THEN AfterChain(toks, i + 2)
    ELSE IF IsHeader(toks, i, "else") /\ IsBlock(toks, i + 1) THEN i + 2
    ELSE i

RECURSIVE Exec(_, _, _, _), ExecIf(_, _, _, _), ExecArms(_, _, _, _, _), ExecFor(_, _, _, _, _)

\* the statements toks[i..], run in order
Exec(toks, i, en, s) ==
    IF i > Len(toks) THEN s
    ELSE LET h == toks[i]
         IN  CASE h.k = "write" -> Exec(toks, i + 1, en, Write(Eval(h.e, en), s))
               [] h.k = "braced" -> Exec(toks, i + 1, en, Exec(h.body, 1, en, s))
               [] h.k = "if" /\ IsBlock(toks, i + 1) -> ExecIf(toks, i, en, s)
               [] h.k = "match" /\ IsBlock(toks, i + 1) ->
                    Exec(toks, i + 2, en, ExecArms(toks[i + 1].body, 1, Eval(h.e, en), en, s))
               [] h.k = "for" /\ IsBlock(toks, i + 1) ->
                    Exec(toks, i + 2, en,
                         ExecFor(toks[i + 1].body, h.p, Eval(h.e, en).v, en, s))
               [] OTHER -> Append(s, CompileError)

\* `if c { .. }` or `else if c { .. }` at i, with what may follow it
ExecIf(toks, i, en, s) ==
    IF Eval(toks[i].e, en).v
    THEN Exec(toks, AfterChain(toks, i + 2), en, Exec(toks[i + 1].body, 1, en, s))
    ELSE IF IsHeader(toks, i + 2, "elseif") /\ IsBlock(toks, i + 3)
         THEN ExecIf(toks, i + 2, en, s)
         ELSE IF IsHeader(toks, i + 2, "else") /\ IsBlock(toks, i + 3)
              THEN Exec(toks, i + 4, en, Exec(toks[i + 3].body, 1, en, s))
              ELSE Exec(toks, i + 2, en, s)

\* the body of a match block: `pat => { .. }` arms, the first that matches runs
ExecArms(arms, i, v, en, s) ==
    IF i > Len(arms) THEN s
    ELSE IF ~(arms[i].k = "arm" /\ IsBlock(arms, i + 1)) THEN Append(s, CompileError)
    ELSE IF Matches(arms[i].p, v) THEN Exec(arms[i + 1].body, 1, Bind(arms[i].p, v, en), s)
    ELSE ExecArms(arms, i + 2, v, en, s)

\* `for pat in items { body }`
ExecFor(body, pat, items, en, s) ==
    IF items = <<>> THEN s
    ELSE ExecFor(body, pat, Tail(items), en, Exec(body, 1, Bind(pat, Head(items), en), s))

\* <impl FnOnce(&mut String) as Html>::write on the generated closure
WriteClosure(toks, en, s) == Exec(toks, 1, en, s)

(***************************************************************************)
(* The templates and host values the generator is run on.                  *)
(***************************************************************************)
Ident(s) == [k |-> "Ident", s |-> s]
LitName(s) == [k |-> "Lit", s |-> s]
Var(n) == [e |-> "var", n |-> n]
LitStrExpr(s) == [e |-> "lit_str", s |-> s]
LitBoolExpr(b) == [e |-> "lit_bool", b |-> b]
Literal(s) == [k |-> "Literal", s |-> s]
InterpExpr(expr) == [k |-> "Interp", value |-> [k |-> "Expr", expr |-> expr]]
InterpIf(cond, then_branch, else_if, else_branch) ==
    [k |-> "Interp", value |-> [k |-> "If", cond |-> cond, then_branch |-> then_branch,
                                else_if |-> else_if, else_branch |-> else_branch]]
ElseIf(cond, g) == [cond |-> cond, group |-> g]
Else(g) == [group |-> g]
InterpMatch(expr, arms) ==
    [k |-> "Interp", value |-> [k |-> "Match", expr |-> expr, arms |-> arms]]
ArmGroup(pat, g) == [pat |-> pat, expr |-> [k |-> "Group", group |-> g]]
ArmLiteral(pat, s) == [pat |-> pat, expr |-> [k |-> "Literal", s |-> s]]
InterpFor(pat, expr, body) ==
    [k |-> "Interp", value |-> [k |-> "For", pat |-> pat, expr |-> expr, body |-> body]]
Normal(name, attrs, inner) ==
    [k |-> "Element",
     element |-> [k |-> "Normal", name |-> name, attrs |-> attrs, inner |-> inner]]
Void(name, attrs) ==
    [k |-> "Element", element |-> [k |-> "Void", name |-> name, attrs |-> attrs]]
Attr(name, value) == [name |-> name, value |-> value]
Attrs(inner) == Some([inner |-> inner])

Str(s) == [t |-> "str", v |-> s]
Bool(b) == [t |-> "bool", v |-> b]
IntV(n) == [t |-> "int", v |-> n]
NoneValue == [t |-> "none"]
SomeValue(v) == [t |-> "some", v |-> v]
List(l) == [t |-> "list", v |-> l]
Wild == [p |-> "wild"]
LitPat(v) == [p |-> "lit", v |-> v]
BindPat(n) == [p |-> "bind", n |-> n]

Hi == <<"H", "i">>
Lo == <<"L", "o">>
Sharp == <<"<", "&">>
Quoted == <<"\"", "\\", "'">>

AttrNames == {Ident(<<"i", "d">>), LitName(<<"x", "-", "&">>)}
AttrValues ==
    {None, Some(LitStrExpr(<<"U">>)), Some(LitStrExpr(Quoted)), Some(LitBoolExpr(TRUE)),
     Some(LitBoolExpr(FALSE)), Some(Var("x"))}
AttrSet == {Attr(n, v) : n \in AttrNames, v \in AttrValues}
AttrLists == SeqsUpTo(AttrSet, MaxAttrs)

P == Ident(<<"p">>)
H1 == Ident(<<"h", "1">>)
Custom == LitName(<<"a", "<", "b">>)

\* one element with every attribute list: `p[..];`, `p[..] {}`, `"a<b"[..] { "Hi" }`
AttrElements ==
    {Void(P, Attrs(l)) : l \in AttrLists}
    \cup {Normal(P, Attrs(l), None) : l \in AttrLists}
    \cup {Normal(Custom, Attrs(l), Some(<<Literal(Hi)>>)) : l \in AttrLists}

StaticNodes ==
    {Literal(<<>>), Literal(Hi), Literal(Sharp), InterpExpr(LitStrExpr(Sharp)),
     Void(Custom, None), Normal(P, None, None),
     Normal(P, Attrs(<<Attr(Ident(<<"i", "d">>), Some(LitStrExpr(<<"U">>)))>>),
            Some(<<Normal(H1, None, Some(<<Literal(Quoted), Void(P, None)>>))>>))}

DynamicNodes ==
    {InterpExpr(Var("x")),
     Normal(P, None, Some(<<InterpExpr(Var("x"))>>)),
     Normal(H1, Attrs(<<Attr(LitName(<<"x", "-", "&">>), Some(Var("x")))>>),
            Some(<<Literal(Hi), InterpExpr(Var("x")), Void(P, None)>>)),
     InterpIf(Var("c"), <<Literal(Hi)>>, <<>>, None),
     InterpIf(Var("c"), <<Normal(H1, None, Some(<<Literal(Hi)>>))>>,
              <<ElseIf(Var("d"), <<Literal(Sharp), InterpExpr(Var("x"))>>)>>,
              Some(Else(<<Normal(P, None, Some(<<Literal(Lo)>>))>>))),
     InterpIf(Var("c"), <<>>, <<>>, Some(Else(<<Literal(Lo)>>))),
     InterpMatch(Var("x"), <<ArmGroup(LitPat(Str(Hi)), <<Normal(H1, None, None)>>),
                             ArmLiteral(LitPat(Str(Sharp)), Sharp),
                             ArmGroup(Wild, <<Literal(Lo), InterpExpr(Var("x"))>>)>>),
     InterpFor(BindPat("i"), Var("xs"),
               <<Normal(P, None, Some(<<InterpExpr(Var("i"))>>))>>),
     InterpFor(BindPat("i"), Var("xs"), <<>>),
     InterpIf(Var("d"), <<InterpFor(BindPat("i"), Var("xs"),
                                    <<Literal(Hi), InterpExpr(Var("i"))>>),
                          Literal(Sharp)>>, <<>>, None)}

Groups == SeqsUpTo(StaticNodes \cup DynamicNodes, MaxNodes) \cup {<<el>> : el \in AttrElements}

XValues ==
    {Str(Hi), Str(Sharp), Str(Quoted), Bool(TRUE), Bool(FALSE), IntV(5), IntV(0 - 12),
     NoneValue, SomeValue(Str(Sharp)), SomeValue(Bool(TRUE)),
     SomeValue(SomeValue(Bool(FALSE))), SomeValue(NoneValue)}
Items == {Str(Sharp), IntV(5)}

MkEnv(x, c, d, xs) ==
    [n \in {"x", "c", "d", "xs"} |->
        CASE n = "x" -> x [] n = "c" -> Bool(c) [] n = "d" -> Bool(d) [] n = "xs" -> List(xs)]

Envs ==
    {MkEnv(x, TRUE, FALSE, <<IntV(5)>>) : x \in XValues}
    \cup {MkEnv(Str(Hi), FALSE, d, <<>>) : d \in BOOLEAN}
    \cup {MkEnv(Str(Hi), FALSE, FALSE, xs) : xs \in SeqsUpTo(Items, MaxIter)}

(***************************************************************************)
(* The generator and the rendering of its output as a state machine.       *)
(***************************************************************************)
IdleEsc == e_in = <<>> /\ e_ct = <<>> /\ e_rt = <<>> /\ e_pc = "idle"
IdleParse == p_input = <<>> /\ p_nodes = <<>> /\ p_state = "idle" /\ p_err = None
\* impl ToTokens for CrateIdent.  proc_macro_crate::crate_name("avosetta")
\* returns Ok(FoundCrate::Itself), Ok(FoundCrate::Name(x)) or an Err when the
\* expanding crate's manifest does not list avosetta.
Itself == [k |-> "Itself"]
Name(x) == [k |-> "Name", x |-> x]
NotFound == [k |-> "Err"]
Lookups == {Itself, Name("html"), NotFound}

\* the closure given to get_or_init, for an Ok lookup
CrateName(r) == IF r = Itself THEN "avosetta" ELSE r.x

\* `proc_macro_crate::crate_name("avosetta").unwrap()` is reached with an Err
UnwrapPanics == CRATE_NAME = None /\ found = NotFound

\* `CRATE_NAME.get_or_init(..)` by the one thread of a macro expansion
CrateIdentToTokens ==
    IF CRATE_NAME = None
    THEN CRATE_NAME' = Some(CrateName(found)) /\ c_inits' = c_inits + 1
    ELSE UNCHANGED <<CRATE_NAME, c_inits>>

\* no concurrent users of CrateIdent beside the generator
NoUsers == c_pc = <<>> /\ c_seen = <<>>
Unset == CRATE_NAME = None /\ c_inits = 0

IdleGen ==
    /\ group = <<>> /\ work = <<>> /\ streams = <<>> /\ tokens = <<>>
    /\ env = <<>> /\ out = <<>> /\ pc = "idle"

\* Generate::to_token_stream: `let mut stream = Stream::new(); self.generate(&mut stream);`
Init ==
    /\ group \in Groups
    /\ work = GroupGenerate(group)
    /\ streams = <<StreamNew>>
    /\ tokens = <<>>
    /\ env = <<>>
    /\ out = <<>>
    /\ pc = "generate"
    /\ found \in Lookups
    /\ Unset
    /\ NoUsers
    /\ IdleEsc
    /\ IdleParse

Calling(op) == pc = "generate" /\ work # <<>> /\ Head(work).op = op
Top == Len(streams)
OnTop(st) == [streams EXCEPT ![Top] = st]

\* A step of generate() that interpolates #CrateIdent into a quote! (`quotes`)
\* first runs CrateIdent::to_tokens, whose `.unwrap()` panics when the crate
\* is not found; a step that returns leaves the Streams as `after`.
Return(quotes, after) ==
    /\ IF quotes /\ UnwrapPanics
       THEN /\ pc' = "panic"
            /\ UNCHANGED <<work, streams, CRATE_NAME, c_inits>>
       ELSE /\ streams' = after
            /\ work' = Tail(work)
            /\ IF quotes THEN CrateIdentToTokens ELSE UNCHANGED <<CRATE_NAME, c_inits>>
            /\ UNCHANGED pc
    /\ UNCHANGED <<group, tokens, env, out, found, c_pc, c_seen, escVars, parseVars>>

push_char ==
    /\ Calling("push_char")
    /\ Return(FALSE, OnTop(PushChar(streams[Top], Head(work).a)))

push_raw ==
    /\ Calling("push_raw")
    /\ Return(FALSE, OnTop(PushRaw(streams[Top], Head(work).a)))

push_escaped ==
    /\ Calling("push_escaped")
    /\ Return(FALSE, OnTop(PushEscaped(streams[Top], Head(work).a)))

\* the flush of a non-empty buffer is `quote! { #CrateIdent::Html::write(..); }`
push_tokens ==
    /\ Calling("push_tokens")
    /\ Return(streams[Top].buffer # <<>>, OnTop(PushTokens(streams[Top], Head(work).a)))

\* `quote! { #CrateIdent::Html::write(#expr, __s); }`
push_write ==
    /\ Calling("push_write")
    /\ Return(TRUE, OnTop(PushWrite(streams[Top], Head(work).a)))

\* Stream::push_braced, up to the call of the closure: `let mut stream = Self::new();`
push_braced_new ==
    /\ Calling("braced_new")
    /\ Return(FALSE, Append(streams, StreamNew))

\* Stream::push_braced, after the closure: `self.push_tokens(quote! { { #stream } });`
push_braced_push ==
    /\ Calling("braced_push")
    /\ Return(streams[Top].buffer # <<>> \/ streams[Top - 1].buffer # <<>>,
              [SubSeq(streams, 1, Top - 1) EXCEPT
                 ![Top - 1] = PushBraced(streams[Top - 1], streams[Top])])

\* Generate::to_token_stream:
\* `const fn coerce<T: #CrateIdent::Html>(x: T) -> .. ; coerce(move |__s: &mut String| { #stream })`
to_token_stream ==
    /\ pc = "generate" /\ work = <<>>
    /\ IF UnwrapPanics
       THEN pc' = "panic" /\ UNCHANGED <<tokens, CRATE_NAME, c_inits>>
       ELSE tokens' = StreamToTokens(streams[1]) /\ pc' = "render" /\ CrateIdentToTokens
    /\ UNCHANGED <<group, work, streams, env, out, found, c_pc, c_seen, escVars, parseVars>>

\* the caller runs the closure: `html! { .. }.write(&mut s)`
write ==
    /\ pc = "render"
    /\ \E en \in Envs :
          /\ env' = en
          /\ out' = WriteClosure(tokens, en, out)
    /\ pc' = "done"
    /\ UNCHANGED <<group, work, streams, tokens, escVars, parseVars, crateVars>>

Next ==
    \/ push_char
    \/ push_raw
    \/ push_escaped
    \/ push_tokens
    \/ push_write
    \/ push_braced_new
    \/ push_braced_push
    \/ to_token_stream
    \/ write

Spec == Init /\ [][Next]_vars

(***************************************************************************)
(* What the claims speak of.                                               *)
(***************************************************************************)
\* the escaping policy: the entity of each of the five characters
Entity(ch) ==
    CASE ch = "&" -> <<"&", "a", "m", "p", ";">>
      [] ch = "<" -> <<"&", "l", "t", ";">>
      [] ch = ">" -> <<"&", "g", "t", ";">>
      [] ch = "'" -> <<"&", "a", "p", "o", "s", ";">>
      [] ch = "\"" -> <<"&", "q", "u", "o", "t", ";">>
      [] OTHER -> <<ch>>

Escaped(s) == Concat([i \in 1..Len(s) |-> Entity(s[i])])
Specials == {"&", "<", ">", "'", "\""}
HasSpecial(s) == \E i \in 1..Len(s) : s[i] \in Specials

\* a flush instruction: a write of a string literal through the raw wrapper
IsFlush(tok) == tok.k = "write" /\ tok.e.e = "raw"
\* a dynamic-write instruction: a write of a host expression
IsDynWrite(tok) == tok.k = "write" /\ tok.e.e # "raw"
\* the string a flush instruction appends
FlushText(tok) == LitValue(tok.e.lit)

\* every token of a token stream, those inside braces included
RECURSIVE Flat(_)
Flat(toks) ==
    IF toks = <<>> THEN <<>>
    ELSE (IF Head(toks).k = "braced" THEN <<Head(toks)>> \o Flat(Head(toks).body)
          ELSE <<Head(toks)>>) \o Flat(Tail(toks))

Count(toks, Pred(_)) == Cardinality({i \in 1..Len(toks) : Pred(toks[i])})

\* no dynamic expression, no dynamic attribute value, no if/match/for
StaticAttr(attr) == attr.value = None \/ attr.value[1].e \in {"lit_str", "lit_bool"}
StaticAttrs(attrs) ==
    attrs = None \/ \A i \in 1..Len(attrs[1].inner) : StaticAttr(attrs[1].inner[i])

RECURSIVE StaticGroup(_)
StaticNode(node) ==
    CASE node.k = "Literal" -> TRUE
      [] node.k = "Interp" -> node.value.k = "Expr" /\ node.value.expr.e = "lit_str"
      [] node.k = "Element" ->
            /\ StaticAttrs(node.element.attrs)
            /\ (node.element.k = "Normal" /\ node.element.inner # None
                    => StaticGroup(node.element.inner[1]))

StaticGroup(g) == \A i \in 1..Len(g) : StaticNode(g[i])

\* how deep elements nest in a Group
RECURSIVE Depth(_)
NodeDepth(node) ==
    IF node.k = "Element"
    THEN 1 + (IF node.element.k = "Normal" /\ node.element.inner # None
              THEN Depth(node.element.inner[1]) ELSE 0)
    ELSE 0

Depth(g) == IF g = <<>> THEN 0
            ELSE LET d == NodeDepth(Head(g)) r == Depth(Tail(g)) IN IF d > r THEN d ELSE r

(***************************************************************************)
(* The output each construct stands for (section 4.2's table), in source   *)
(* order: literal text and literal attribute values escaped once, names    *)
(* as written, dynamic values as the rendering library writes them.        *)
(***************************************************************************)
AttrOutput(attr, en) ==
    IF attr.value = None THEN <<" ">> \o attr.name.s
    ELSE LET expr == attr.value[1]
         IN  CASE expr.e = "lit_str" ->
                    <<" ">> \o attr.name.s \o <<"=", "\"">> \o Escaped(expr.s) \o <<"\"">>
               [] expr.e = "lit_bool" -> IF expr.b THEN <<" ">> \o attr.name.s ELSE <<>>
               [] OTHER -> <<" ">> \o WriteAttr(attr.name.s, Eval(expr, en), <<>>)

AttrsOutput(attrs, en) ==
    IF attrs = None THEN <<>>
    ELSE Concat([i \in 1..Len(attrs[1].inner) |-> AttrOutput(attrs[1].inner[i], en)])

RECURSIVE Output(_, _), NodeOutput(_, _), ElseIfOutput(_, _, _), ArmsOutput(_, _, _),
          ForOutput(_, _, _, _)

Output(g, en) == IF g = <<>> THEN <<>> ELSE NodeOutput(Head(g), en) \o Output(Tail(g), en)

NodeOutput(node, en) ==
    CASE node.k = "Literal" -> Escaped(node.s)
      [] node.k = "Element" /\ node.element.k = "Void" ->
            <<"<">> \o node.element.name.s \o AttrsOutput(node.element.attrs, en) \o <<">">>
      [] node.k = "Element" /\ node.element.k = "Normal" ->
            <<"<">> \o node.element.name.s \o AttrsOutput(node.element.attrs, en) \o <<">">>
            \o (IF node.element.inner = None THEN <<>> ELSE Output(node.element.inner[1], en))
            \o <<"<", "/">> \o node.element.name.s \o <<">">>
      [] node.k = "Interp" /\ node.value.k = "Expr" ->
            IF node.value.expr.e = "lit_str" THEN Escaped(node.value.expr.s)
            ELSE Write(Eval(node.value.expr, en), <<>>)
      [] node.k = "Interp" /\ node.value.k = "If" ->
            IF Eval(node.value.cond, en).v THEN Output(node.value.then_branch, en)
            ELSE ElseIfOutput(node.value.else_if, node.value.else_branch, en)
      [] node.k = "Interp" /\ node.value.k = "Match" ->
            ArmsOutput(node.value.arms, Eval(node.value.expr, en), en)
      [] node.k = "Interp" /\ node.value.k = "For" ->
            ForOutput(node.value.pat, Eval(node.value.expr, en).v, node.value.body, en)

ElseIfOutput(eis, el, en) ==
    IF eis = <<>> THEN (IF el = None THEN <<>> ELSE Output(el[1].group, en))
    ELSE IF Eval(Head(eis).cond, en).v THEN Output(Head(eis).group, en)
    ELSE ElseIfOutput(Tail(eis), el, en)

ArmsOutput(arms, v, en) ==
    IF arms = <<>> THEN <<>>
    ELSE IF Matches(Head(arms).pat, v)
         THEN (IF Head(arms).expr.k = "Literal" THEN Escaped(Head(arms).expr.s)
               ELSE Output(Head(arms).expr.group, Bind(Head(arms).pat, v, en)))
    ELSE ArmsOutput(Tail(arms), v, en)

ForOutput(pat, items, body, en) ==
    IF items = <<>> THEN <<>>
    ELSE Output(body, Bind(pat, Head(items), en)) \o ForOutput(pat, Tail(items), body, en)

Generated == pc \in {"render", "done"}
Rendered == pc = "done"

(***************************************************************************)
(* C1.  As claimed: every Group with only static content compiles to       *)
(* exactly one flush instruction and nothing else.                         *)
(***************************************************************************)
C1_ExactlyOneFlush ==
    Generated /\ StaticGroup(group) =>
        /\ Len(Flat(tokens)) = 1
        /\ IsFlush(tokens[1])

\* C1, amended: a Group with only static content compiles to no dynamic-write and
\* no control-flow instruction at any depth, and to exactly one flush instruction
\* when its static text is non-empty; when it is empty (an empty Group, only empty
\* literals) it compiles to no instruction at all.
C1_StaticOneFlush ==
    Generated /\ StaticGroup(group) =>
        /\ Count(Flat(tokens), IsDynWrite) = 0
        /\ \A i \in 1..Len(Flat(tokens)) : IsFlush(Flat(tokens)[i])
        /\ (Output(group, <<>>) # <<>> => Len(tokens) = 1)
        /\ (Output(group, <<>>) = <<>> => tokens = <<>>)

C1_Witness ==
    /\ Generated /\ StaticGroup(group) /\ Depth(group) >= 2
    /\ Len(tokens) = 1 /\ IsFlush(tokens[1])

(***************************************************************************)
(* C3.  Literal merging never changes the rendered bytes: running the      *)
(* generated closure appends exactly the constructs' outputs in source     *)
(* order, literal text escaped once and flushed without further escaping.  *)
(***************************************************************************)
C3_MergingKeepsBytes == Rendered => out = Output(group, env)

C3_Witness ==
    /\ Rendered
    /\ Count(Flat(tokens), IsFlush) >= 3
    /\ Count(Flat(tokens), IsDynWrite) >= 1
    /\ \E i \in 1..Len(group) : group[i] = Literal(Sharp)
    /\ \E i \in 1..Len(tokens) : IsFlush(tokens[i]) /\ HasSpecial(FlushText(tokens[i]))
    /\ out = Output(group, env) /\ Len(out) > 8

(***************************************************************************)
(* C4.  A dynamic construct emitted while the literal buffer is non-empty  *)
(* is preceded by exactly one flush of the whole buffer, the buffer is     *)
(* cleared, and later static text starts a fresh buffer; so `p { @x }`     *)
(* (static text, one dynamic expression, static text) compiles to          *)
(* flush, dynamic-write, flush.                                            *)
(***************************************************************************)
EmitsDynamic ==
    /\ pc = "generate" /\ work # <<>>
    /\ Head(work).op \in {"push_tokens", "push_write", "braced_push"}
    /\ work' = Tail(work)
Target == IF Head(work).op = "braced_push" THEN Top - 1 ELSE Top

FlushThenDynamic ==
    EmitsDynamic /\ streams[Target].buffer # <<>> =>
        LET before == streams[Target]
            after == streams'[Target]
            n == Len(before.stream)
        IN  /\ Len(after.stream) = n + 2
            /\ SubSeq(after.stream, 1, n) = before.stream
            /\ IsFlush(after.stream[n + 1])
            /\ FlushText(after.stream[n + 1]) = before.buffer
            /\ ~IsFlush(after.stream[n + 2])
            /\ after.buffer = <<>>

StaticDynamicStatic ==
    \A name \in {P, H1, Custom} :
        Generated /\ group = <<Normal(name, None, Some(<<InterpExpr(Var("x"))>>))>> =>
            /\ Len(tokens) = 3
            /\ IsFlush(tokens[1]) /\ FlushText(tokens[1]) = <<"<">> \o name.s \o <<">">>
            /\ tokens[2] = [k |-> "write", e |-> Var("x")]
            /\ IsFlush(tokens[3])
            /\ FlushText(tokens[3]) = <<"<", "/">> \o name.s \o <<">">>

C4_FlushBeforeDynamic == [][FlushThenDynamic]_vars /\ []StaticDynamicStatic

C4_Witness ==
    /\ Generated
    /\ group = <<Normal(P, None, Some(<<InterpExpr(Var("x"))>>))>>
    /\ Len(tokens) = 3

(***************************************************************************)
(* The two escapers run on one string: Stream::push_escaped at compile     *)
(* time, <&str as Html>::write at run time, in either order.               *)
(***************************************************************************)
EscAlphabet == {"&", "<", ">", "'", "\"", "a", ";"}

InitEsc ==
    /\ e_in \in SeqsUpTo(EscAlphabet, MaxLen)
    /\ e_ct = <<>>
    /\ e_rt = <<>>
    /\ e_pc = {}
    /\ IdleGen
    /\ IdleParse
    /\ found = Itself /\ Unset /\ NoUsers

\* `stream.push_escaped(&lit_str.value())` on a new Stream
compile_time_escape ==
    /\ "ct" \notin e_pc
    /\ e_ct' = PushEscaped(StreamNew, e_in).buffer
    /\ e_pc' = e_pc \cup {"ct"}
    /\ UNCHANGED <<e_in, e_rt, genVars, parseVars, crateVars>>

\* `Html::write(s, &mut String::new())` for a &str
run_time_escape ==
    /\ "rt" \notin e_pc
    /\ e_rt' = Write(Str(e_in), <<>>)
    /\ e_pc' = e_pc \cup {"rt"}
    /\ UNCHANGED <<e_in, e_ct, genVars, parseVars, crateVars>>

NextEsc ==
    \/ compile_time_escape
    \/ run_time_escape

SpecEscape == InitEsc /\ [][NextEsc]_vars

(***************************************************************************)
(* C2.  The compile-time and the run-time escaper compute the same         *)
(* function: each of & < > ' " becomes its entity, every other character   *)
(* is copied, and a string with none of the five comes back unchanged.     *)
(***************************************************************************)
C2_EscapersAgree ==
    e_pc = {"ct", "rt"} =>
        /\ e_ct = e_rt
        /\ e_ct = Escaped(e_in)
        /\ (~HasSpecial(e_in) => e_ct = e_in)

C2_Witness ==
    /\ e_pc = {"ct", "rt"}
    /\ e_in = <<"a", "'", "&">>
    /\ e_rt = <<"a", "&", "a", "p", "o", "s", ";", "&", "a", "m", "p", ";">>

(***************************************************************************)
(* C6.  As claimed: literal text nodes and literal Names (tag names and    *)
(* attribute names) are appended to the literal buffer in escaped form.    *)
(***************************************************************************)
Verbatim(s) == s
OneFlushOf(text) == Len(tokens) = 1 /\ IsFlush(tokens[1]) /\ FlushText(tokens[1]) = text
BareAttrs(attrs) ==
    attrs = None \/ \A i \in 1..Len(attrs[1].inner) : attrs[1].inner[i].value = None
BareAttrsText(attrs, NameForm(_)) ==
    IF attrs = None THEN <<>>
    ELSE Concat([i \in 1..Len(attrs[1].inner) |-> <<" ">> \o NameForm(attrs[1].inner[i].name.s)])

\* a template of one literal text, or of one element whose attributes have no value
LiteralsBuffered(NameForm(_)) ==
    Generated /\ Len(group) = 1 =>
        LET node == group[1]
        IN  /\ node.k = "Literal" /\ node.s # <<>> => OneFlushOf(Escaped(node.s))
            /\ node.k = "Element" /\ node.element.k = "Void" /\ BareAttrs(node.element.attrs)
                => OneFlushOf(<<"<">> \o NameForm(node.element.name.s)
                              \o BareAttrsText(node.element.attrs, NameForm) \o <<">">>)
            /\ node.k = "Element" /\ node.element.k = "Normal" /\ BareAttrs(node.element.attrs)
               /\ node.element.inner = None
                => OneFlushOf(<<"<">> \o NameForm(node.element.name.s)
                              \o BareAttrsText(node.element.attrs, NameForm)
                              \o <<">", "<", "/">> \o NameForm(node.element.name.s) \o <<">">>)

C6_NamesEscaped == LiteralsBuffered(Escaped)

\* C6, amended: literal text nodes are appended to the literal buffer in escaped
\* form; literal Names (tag names and attribute names) are appended as written,
\* without escaping.
C6_TextEscapedNamesVerbatim == LiteralsBuffered(Verbatim)

C6_Witness ==
    /\ Generated
    /\ group = <<Void(P, Attrs(<<Attr(LitName(<<"x", "-", "&">>), None)>>))>>
    /\ OneFlushOf(<<"<", "p", " ", "x", "-", "&", ">">>)

(***************************************************************************)
(* C7.  A static attribute emits no instruction; it buffers space, name,   *)
(* =", escaped value, " for a literal string, space and name for a literal *)
(* true and for no value alike, and nothing for a literal false.           *)
(***************************************************************************)
StaticAttrText(attr) ==
    IF attr.value = None \/ attr.value[1] = LitBoolExpr(TRUE) THEN <<" ">> \o attr.name.s
    ELSE IF attr.value[1] = LitBoolExpr(FALSE) THEN <<>>
    ELSE <<" ">> \o attr.name.s \o <<"=", "\"">> \o Escaped(attr.value[1].s) \o <<"\"">>

C7_StaticAttrs ==
    /\ Generated /\ Len(group) = 1 /\ group[1].k = "Element"
    /\ group[1].element.k = "Void" /\ group[1].element.attrs # None
    /\ StaticAttrs(group[1].element.attrs)
    => LET l == group[1].element.attrs[1].inner
       IN  OneFlushOf(<<"<">> \o group[1].element.name.s
                      \o Concat([i \in 1..Len(l) |-> StaticAttrText(l[i])]) \o <<">">>)

C7_Witness ==
    /\ Generated
    /\ group = <<Void(P, Attrs(<<Attr(Ident(<<"i", "d">>), Some(LitBoolExpr(FALSE))),
                                 Attr(LitName(<<"x", "-", "&">>), Some(LitStrExpr(Quoted)))>>))>>
    /\ OneFlushOf(<<"<", "p", " ", "x", "-", "&", "=", "\"", "&", "q", "u", "o", "t", ";",
                    "\\", "&", "a", "p", "o", "s", ";", "\"", ">">>)

(***************************************************************************)
(* C8.  The runtime attribute pair Attr(name, v) appends name="value" for  *)
(* an ordinary value, nothing for false, the bare name for true, nothing   *)
(* for None, and for Some(x) what Attr(name, x) appends.                   *)
(***************************************************************************)
RECURSIVE AttrPairText(_, _)
AttrPairText(name, v) ==
    CASE v = Bool(FALSE) -> <<>>
      [] v = Bool(TRUE) -> name
      [] v = NoneValue -> <<>>
      [] v.t = "some" -> AttrPairText(name, v.v)
      [] OTHER -> name \o <<"=", "\"">> \o Write(v, <<>>) \o <<"\"">>

C8_RuntimeAttr ==
    \A name \in AttrNames :
        Rendered /\ group = <<Void(P, Attrs(<<Attr(name, Some(Var("x")))>>))>> =>
            out = <<"<", "p", " ">> \o AttrPairText(name.s, env["x"]) \o <<">">>

C8_Witness ==
    /\ Rendered
    /\ group = <<Void(P, Attrs(<<Attr(Ident(<<"i", "d">>), Some(Var("x")))>>))>>
    /\ env["x"] = SomeValue(SomeValue(Bool(FALSE)))
    /\ out = <<"<", "p", " ", ">">>

(***************************************************************************)
(* C9.  `@"text"` is generated exactly like the literal text node          *)
(* `"text"`: the same Stream calls are made (the escaped text goes to the  *)
(* buffer, nothing is flushed, no dynamic write is emitted) and both       *)
(* render the same HTML.                                                   *)
(***************************************************************************)
RECURSIVE AsLiterals(_)
AsLiteral(node) ==
    CASE node.k = "Interp" /\ node.value.k = "Expr" /\ node.value.expr.e = "lit_str" ->
            Literal(node.value.expr.s)
      [] node.k = "Element" /\ node.element.k = "Normal" /\ node.element.inner # None ->
            [node EXCEPT !.element.inner = Some(AsLiterals(node.element.inner[1]))]
      [] OTHER -> node

AsLiterals(g) == [i \in 1..Len(g) |-> AsLiteral(g[i])]

IsSuffix(s, whole) == Len(s) <= Len(whole) /\ s = SubSeq(whole, Len(whole) - Len(s) + 1, Len(whole))
HasLitInterp == \E i \in 1..Len(group) : group[i] = InterpExpr(LitStrExpr(Sharp))

C10_ElementShape ==
    Rendered /\ group # <<>> /\ group[1].k = "Element" =>
        LET el == group[1].element
            attrs == IF el.attrs = None THEN <<>>
                     ELSE Concat([i \in 1..Len(el.attrs[1].inner) |->
                                     AttrOutput(el.attrs[1].inner[i], env)])
            open == <<"<">> \o el.name.s \o attrs \o <<">">>
            close == <<"<", "/">> \o el.name.s \o <<">">>
            rest == Output(Tail(group), env)
        IN  /\ el.k = "Void" => out = open \o rest
            /\ el.k = "Normal" /\ el.inner = None => out = open \o close \o rest
            /\ el.k = "Normal" /\ el.inner # None =>
                    out = open \o Output(el.inner[1], env) \o close \o rest

C10_Witness ==
    /\ Rendered
    /\ \E a \in AttrSet :
          /\ a.value = Some(LitStrExpr(<<"U">>))
          /\ group = <<Normal(Custom, Attrs(<<a, a>>), Some(<<Literal(Hi)>>))>>
    /\ Len(out) > 20

(***************************************************************************)
(* parse.rs.  The ParseStream is a sequence of token trees: [t |-> "LitStr",*)
(* s], [t |-> "Ident", s] (never a keyword), [t |-> "LitBool", b],         *)
(* [t |-> "Brace", inner], [t |-> "Bracket", inner], and [t |-> x] for the *)
(* punctuation and keywords ";", "@", "=", ",", "=>", "_", "if", "else",   *)
(* "match", "for", "in".  A parse returns Ok(value, rest of the stream) or *)
(* Err(the stream at the offending token, what was expected).              *)
(***************************************************************************)
Tok(t) == [t |-> t]
LitStrTok(s) == [t |-> "LitStr", s |-> s]
IdentTok(s) == [t |-> "Ident", s |-> s]
LitBoolTok(b) == [t |-> "LitBool", b |-> b]
BraceTok(inner) == [t |-> "Brace", inner |-> inner]
BracketTok(inner) == [t |-> "Bracket", inner |-> inner]

Ok(v, rest) == [ok |-> TRUE, v |-> v, rest |-> rest]
Err(at, expected) == [ok |-> FALSE, at |-> at, expected |-> expected]

\* ParseStream::peek, peek2, peek3
PeekN(toks, n, t) == Len(toks) >= n /\ toks[n].t = t
Peek(toks, t) == PeekN(toks, 1, t)
Peek2(toks, t) == PeekN(toks, 2, t)
Peek3(toks, t) == PeekN(toks, 3, t)

\* input.parse::<Token![..]>(), braced!, bracketed!
ParseToken(toks, t) == IF Peek(toks, t) THEN Ok(toks[1], Tail(toks)) ELSE Err(toks, {t})

\* input.parse::<LitStr>()
ParseLitStr(toks) ==
    IF Peek(toks, "LitStr") THEN Ok(toks[1].s, Tail(toks)) ELSE Err(toks, {"LitStr"})

\* impl Parse for Name
ParseName(toks) ==
    IF Peek(toks, "LitStr") THEN Ok(LitName(toks[1].s), Tail(toks))
    ELSE IF Peek(toks, "Ident") THEN Ok(Ident(toks[1].s), Tail(toks))
    ELSE Err(toks, {"LitStr", "Ident"})

\* syn's Expr::parse, for the host expressions that are one token: a string
\* literal, a boolean literal, a variable
ParseExpr(toks) ==
    IF Peek(toks, "LitStr") THEN Ok(LitStrExpr(toks[1].s), Tail(toks))
    ELSE IF Peek(toks, "LitBool") THEN Ok(LitBoolExpr(toks[1].b), Tail(toks))
    ELSE IF Peek(toks, "Ident") THEN Ok(Var(toks[1].s), Tail(toks))
    ELSE Err(toks, {"expression"})

\* syn's Pat::parse_multi_with_leading_vert, for the patterns that are one token
ParsePat(toks) ==
    IF Peek(toks, "_") THEN Ok(Wild, Tail(toks))
    ELSE IF Peek(toks, "LitStr") THEN Ok(LitPat(Str(toks[1].s)), Tail(toks))
    ELSE IF Peek(toks, "Ident") THEN Ok(BindPat(toks[1].s), Tail(toks))
    ELSE Err(toks, {"pattern"})

\* The `?` operator: the first error is returned, a success is handed on
Try(r, K(_)) == CHOOSE y \in {IF x.ok THEN K(x) ELSE x : x \in {r}} : TRUE

\* impl Parse for AttrValue
ParseAttrValue(toks) == Try(ParseToken(toks, "="), LAMBDA eq : ParseExpr(eq.rest))

\* impl Parse for Attr
ParseAttr(toks) ==
    Try(ParseName(toks), LAMBDA name :
        IF Peek(name.rest, "=")
        THEN Try(ParseAttrValue(name.rest), LAMBDA value :
                 Ok(Attr(name.v, Some(value.v)), value.rest))
        ELSE Ok(Attr(name.v, None), name.rest))

\* ParseBuffer::parse_terminated(Attr::parse, Token![,])
RECURSIVE ParseTerminated(_, _)
ParseTerminated(toks, acc) ==
    IF toks = <<>> THEN Ok(acc, <<>>)
    ELSE Try(ParseAttr(toks), LAMBDA attr :
             IF attr.rest = <<>> THEN Ok(Append(acc, attr.v), <<>>)
             ELSE Try(ParseToken(attr.rest, ","), LAMBDA comma :
                      ParseTerminated(comma.rest, Append(acc, attr.v))))

\* impl Parse for Attrs
ParseAttrs(toks) ==
    Try(ParseToken(toks, "Bracket"), LAMBDA bracket :
        Try(ParseTerminated(bracket.v.inner, <<>>), LAMBDA inner :
            Ok([inner |-> inner.v], bracket.rest)))

\* `attrs: if input.peek(Bracket) { Some(input.parse()?) } else { None }`
ParseOptAttrs(toks) ==
    IF Peek(toks, "Bracket")
    THEN Try(ParseAttrs(toks), LAMBDA attrs : Ok(Some(attrs.v), attrs.rest))
    ELSE Ok(None, toks)

\* impl Parse for Void, had it taken a braced body after the `;`
ParseVoidWithBody(toks) ==
    Try(ParseName(toks), LAMBDA name :
        Try(ParseOptAttrs(name.rest), LAMBDA attrs :
            Try(ParseToken(attrs.rest, ";"), LAMBDA semi :
                IF Peek(semi.rest, "Brace")
                THEN Ok([k |-> "Void", name |-> name.v, attrs |-> attrs.v,
                         inner |-> semi.rest[1].inner], Tail(semi.rest))
                ELSE Ok([k |-> "Void", name |-> name.v, attrs |-> attrs.v], semi.rest))))

\* impl Parse for Void
ParseVoid(toks) ==
    Try(ParseName(toks), LAMBDA name :
        Try(ParseOptAttrs(name.rest), LAMBDA attrs :
            Try(ParseToken(attrs.rest, ";"), LAMBDA semi :
                Ok([k |-> "Void", name |-> name.v, attrs |-> attrs.v], semi.rest))))

RECURSIVE ParseGroup(_, _), ParseNode(_), ParseNormal(_), ParseInterpValue(_), ParseInterpIf(_),
          ParseElseIfs(_, _), ParseInterpElseIf(_), ParseInterpElse(_), ParseInterpFor(_),
          ParseInterpMatch(_), ParseArms(_, _), ParseInterpArm(_), ParseInterpArmExpr(_),
          ParseBracedGroup(_)

\* impl Parse for Group: `while !input.is_empty() { v.push(input.parse()?); }`
ParseGroup(toks, v) ==
    IF toks = <<>> THEN Ok(v, <<>>)
    ELSE Try(ParseNode(toks), LAMBDA node : ParseGroup(node.rest, Append(v, node.v)))

\* `braced!(group in input)` followed by `group.parse()?` for a Group
ParseBracedGroup(toks) ==
    Try(ParseToken(toks, "Brace"), LAMBDA brace :
        Try(ParseGroup(brace.v.inner, <<>>), LAMBDA g : Ok(g.v, brace.rest)))

\* impl Parse for Normal
ParseNormal(toks) ==
    Try(ParseName(toks), LAMBDA name :
        Try(ParseOptAttrs(name.rest), LAMBDA attrs :
            Try(ParseToken(attrs.rest, "Brace"), LAMBDA brace :
                IF brace.v.inner = <<>>
                THEN Ok([k |-> "Normal", name |-> name.v, attrs |-> attrs.v, inner |-> None],
                        brace.rest)
                ELSE Try(ParseGroup(brace.v.inner, <<>>), LAMBDA g :
                         Ok([k |-> "Normal", name |-> name.v, attrs |-> attrs.v,
                             inner |-> Some(g.v)], brace.rest)))))

\* impl Parse for Element
ParseElement(toks) ==
    IF Peek2(toks, ";") \/ (Peek2(toks, "Bracket") /\ Peek3(toks, ";"))
    THEN ParseVoid(toks)
    ELSE ParseNormal(toks)

\* impl Parse for Interp
ParseInterp(toks) ==
    Try(ParseToken(toks, "@"), LAMBDA at :
        Try(ParseInterpValue(at.rest), LAMBDA value :
            Ok([k |-> "Interp", value |-> value.v], value.rest)))

\* impl Parse for Node without the lookahead past a bracketed attribute list
ParseNodeNoBracketLookahead(toks) ==
    IF Peek(toks, "LitStr") \/ Peek(toks, "Ident")
    THEN IF Peek2(toks, "Brace") \/ Peek2(toks, ";")
         THEN Try(ParseElement(toks), LAMBDA element :
                  Ok([k |-> "Element", element |-> element.v], element.rest))
         ELSE Try(ParseLitStr(toks), LAMBDA lit : Ok(Literal(lit.v), lit.rest))
    ELSE IF Peek(toks, "@") THEN ParseInterp(toks)
    ELSE Err(toks, {"LitStr", "Ident", "@"})

\* impl Parse for Node
ParseNode(toks) ==
    IF Peek(toks, "LitStr") \/ Peek(toks, "Ident")
    THEN IF \/ Peek2(toks, "Brace")
            \/ (Peek2(toks, "Bracket") /\ Peek3(toks, "Brace"))
            \/ Peek2(toks, ";")
            \/ (Peek2(toks, "Bracket") /\ Peek3(toks, ";"))
         THEN Try(ParseElement(toks), LAMBDA element :
                  Ok([k |-> "Element", element |-> element.v], element.rest))
         ELSE Try(ParseLitStr(toks), LAMBDA lit : Ok(Literal(lit.v), lit.rest))
    ELSE IF Peek(toks, "@") THEN ParseInterp(toks)
    ELSE Err(toks, {"LitStr", "Ident", "@"})

\* impl Parse for InterpValue
ParseInterpValue(toks) ==
    IF Peek(toks, "if") THEN ParseInterpIf(toks)
    ELSE IF Peek(toks, "match") THEN ParseInterpMatch(toks)
    ELSE IF Peek(toks, "for") THEN ParseInterpFor(toks)
    ELSE Try(ParseExpr(toks), LAMBDA expr : Ok([k |-> "Expr", expr |-> expr.v], expr.rest))

\* impl Parse for InterpElseIf
ParseInterpElseIf(toks) ==
    Try(ParseToken(toks, "else"), LAMBDA else_token :
        Try(ParseToken(else_token.rest, "if"), LAMBDA if_token :
            Try(ParseExpr(if_token.rest), LAMBDA cond :
                Try(ParseBracedGroup(cond.rest), LAMBDA g : Ok(ElseIf(cond.v, g.v), g.rest)))))

\* impl Parse for InterpElse
ParseInterpElse(toks) ==
    Try(ParseToken(toks, "else"), LAMBDA else_token :
        Try(ParseBracedGroup(else_token.rest), LAMBDA g : Ok(Else(g.v), g.rest)))

\* `while input.peek(Token![else]) && input.peek2(Token![if]) { v.push(input.parse()?); }`
ParseElseIfs(toks, v) ==
    IF Peek(toks, "else") /\ Peek2(toks, "if")
    THEN Try(ParseInterpElseIf(toks), LAMBDA ei : ParseElseIfs(ei.rest, Append(v, ei.v)))
    ELSE Ok(v, toks)

\* impl Parse for InterpIf
ParseInterpIf(toks) ==
    Try(ParseToken(toks, "if"), LAMBDA if_token :
        Try(ParseExpr(if_token.rest), LAMBDA cond :
            Try(ParseBracedGroup(cond.rest), LAMBDA then_branch :
                Try(ParseElseIfs(then_branch.rest, <<>>), LAMBDA else_if :
                    IF Peek(else_if.rest, "else")
                    THEN Try(ParseInterpElse(else_if.rest), LAMBDA else_branch :
                             Ok([k |-> "If", cond |-> cond.v, then_branch |-> then_branch.v,
                                 else_if |-> else_if.v, else_branch |-> Some(else_branch.v)],
                                else_branch.rest))
                    ELSE Ok([k |-> "If", cond |-> cond.v, then_branch |-> then_branch.v,
                             else_if |-> else_if.v, else_branch |-> None], else_if.rest)))))

\* impl Parse for InterpFor
ParseInterpFor(toks) ==
    Try(ParseToken(toks, "for"), LAMBDA for_token :
        Try(ParsePat(for_token.rest), LAMBDA pat :
            Try(ParseToken(pat.rest, "in"), LAMBDA in_token :
                Try(ParseExpr(in_token.rest), LAMBDA expr :
                    Try(ParseBracedGroup(expr.rest), LAMBDA body :
                        Ok([k |-> "For", pat |-> pat.v, expr |-> expr.v, body |-> body.v],
                           body.rest))))))

\* impl Parse for InterpArmExpr, impl Parse for InterpArmGroup
ParseInterpArmExpr(toks) ==
    IF Peek(toks, "Brace")
    THEN Try(ParseBracedGroup(toks), LAMBDA g : Ok([k |-> "Group", group |-> g.v], g.rest))
    ELSE IF Peek(toks, "LitStr") THEN Ok([k |-> "Literal", s |-> toks[1].s], Tail(toks))
    ELSE Err(toks, {"Brace", "LitStr"})

\* impl Parse for InterpArm
ParseInterpArm(toks) ==
    Try(ParsePat(toks), LAMBDA pat :
        Try(ParseToken(pat.rest, "=>"), LAMBDA fat_arrow_token :
            Try(ParseInterpArmExpr(fat_arrow_token.rest), LAMBDA expr :
                Ok([pat |-> pat.v, expr |-> expr.v],
                   IF Peek(expr.rest, ",") THEN Tail(expr.rest) ELSE expr.rest))))

\* `while !arms.is_empty() { v.push(arms.parse()?); }`
ParseArms(toks, v) ==
    IF toks = <<>> THEN Ok(v, <<>>)
    ELSE Try(ParseInterpArm(toks), LAMBDA arm : ParseArms(arm.rest, Append(v, arm.v)))

\* impl Parse for InterpMatch
ParseInterpMatch(toks) ==
    Try(ParseToken(toks, "match"), LAMBDA match_token :
        Try(ParseExpr(match_token.rest), LAMBDA expr :
            Try(ParseToken(expr.rest, "Brace"), LAMBDA brace :
                Try(ParseArms(brace.v.inner, <<>>), LAMBDA arms :
                    Ok([k |-> "Match", expr |-> expr.v, arms |-> arms.v], brace.rest)))))

(***************************************************************************)
(* The parser as a state machine: Group::parse, called by html! on the     *)
(* macro's input, parses one Node per iteration of its loop and returns    *)
(* the first error.                                                        *)
(***************************************************************************)
X == <<"x">>
Id == <<"i", "d">>
PName == <<"p">>

Alphabet ==
    {LitStrTok(Hi), IdentTok(PName), BraceTok(<<>>), BraceTok(<<LitStrTok(Lo)>>),
     BracketTok(<<>>), BracketTok(<<IdentTok(Id)>>), Tok(";"), Tok("@")}

Structured ==
    {<<Tok("@"), Tok("if"), IdentTok(X), BraceTok(<<LitStrTok(Hi)>>),
       Tok("else"), Tok("if"), LitBoolTok(TRUE), BraceTok(<<IdentTok(PName), Tok(";")>>),
       Tok("else"), BraceTok(<<LitStrTok(Lo)>>)>>,
     <<Tok("@"), Tok("if"), IdentTok(X), BraceTok(<<IdentTok(PName)>>)>>,
     <<Tok("@"), Tok("if"), IdentTok(X), BraceTok(<<>>), Tok("else"), LitStrTok(Hi)>>,
     <<Tok("@"), Tok("match"), IdentTok(X),
       BraceTok(<<LitStrTok(Hi), Tok("=>"), LitStrTok(Lo), Tok(","),
                  IdentTok(X), Tok("=>"), BraceTok(<<Tok("@"), IdentTok(X)>>),
                  Tok("_"), Tok("=>"), BraceTok(<<>>)>>)>>,
     <<Tok("@"), Tok("match"), IdentTok(X), BraceTok(<<Tok("_"), Tok("=>"), IdentTok(PName)>>)>>,
     <<Tok("@"), Tok("for"), IdentTok(X), Tok("in"), IdentTok(Id),
       BraceTok(<<Tok("@"), IdentTok(X)>>)>>,
     <<Tok("@"), Tok("for"), IdentTok(X), IdentTok(Id), BraceTok(<<>>)>>,
     <<IdentTok(PName),
       BracketTok(<<IdentTok(Id), Tok("="), LitStrTok(Hi), Tok(","), LitStrTok(Lo), Tok(",")>>),
       BraceTok(<<IdentTok(PName), BraceTok(<<LitStrTok(Hi)>>)>>)>>,
     <<IdentTok(PName), BracketTok(<<IdentTok(Id), IdentTok(Id)>>), Tok(";")>>,
     <<LitStrTok(Hi), BracketTok(<<Tok("=")>>), BraceTok(<<>>)>>,
     <<IdentTok(PName), BracketTok(<<IdentTok(Id), Tok("="), Tok(";")>>), Tok(";")>>,
     <<IdentTok(PName), BracketTok(<<>>), Tok(";"), LitStrTok(Hi), IdentTok(PName)>>,
     <<IdentTok(PName),
       BraceTok(<<IdentTok(PName), Tok(";"), BraceTok(<<LitStrTok(Lo)>>), LitStrTok(Hi)>>)>>,
     <<LitStrTok(Hi),
       BraceTok(<<LitStrTok(Lo), BracketTok(<<IdentTok(Id)>>), Tok(";"), BraceTok(<<>>)>>)>>,
     <<Tok("@"), Tok("if"), IdentTok(X),
       BraceTok(<<IdentTok(PName), Tok(";"), BraceTok(<<>>)>>)>>,
     <<LitStrTok(Hi), IdentTok(PName),
       BraceTok(<<IdentTok(PName), Tok(";"), BraceTok(<<>>)>>), LitStrTok(Lo)>>}

Inputs == SeqsUpTo(Alphabet, MaxToks) \cup Structured

InitParse ==
    /\ p_input \in Inputs
    /\ p_nodes = <<>>
    /\ p_state = "parsing"
    /\ p_err = None
    /\ found \in Lookups
    /\ Unset
    /\ NoUsers
    /\ IdleGen
    /\ IdleEsc

\* One iteration of Group::parse's loop: `v.push(input.parse()?)`
parse_node ==
    /\ p_state = "parsing"
    /\ p_input # <<>>
    /\ \E node \in {ParseNode(p_input)} :
           IF node.ok
           THEN /\ p_nodes' = Append(p_nodes, node.v)
                /\ p_input' = node.rest
                /\ UNCHANGED <<p_state, p_err>>
           ELSE /\ p_state' = "error"
                /\ p_err' = Some([at |-> node.at, expected |-> node.expected])
                /\ UNCHANGED <<p_input, p_nodes>>
    /\ UNCHANGED <<genVars, escVars, crateVars>>

\* Group::parse's loop ends with the input: `Ok(Self(v.into_boxed_slice()))`
parse_end ==
    /\ p_state = "parsing"
    /\ p_input = <<>>
    /\ p_state' = "ok"
    /\ UNCHANGED <<p_input, p_nodes, p_err, genVars, escVars, crateVars>>

\* html!: `parse_macro_input!(item as Group)` returned the Group, and
\* `.to_token_stream()` starts: `let mut stream = Stream::new(); self.generate(&mut stream);`
html_generate ==
    /\ p_state = "ok" /\ pc = "idle"
    /\ group' = p_nodes
    /\ work' = GroupGenerate(p_nodes)
    /\ streams' = <<StreamNew>>
    /\ pc' = "generate"
    /\ UNCHANGED <<tokens, env, out, parseVars, escVars, crateVars>>

\* html!, had it generated from the Nodes parsed before the error
html_error_partial ==
    /\ p_state = "error" /\ pc = "idle"
    /\ group' = p_nodes
    /\ work' = GroupGenerate(p_nodes)
    /\ streams' = <<StreamNew>>
    /\ pc' = "generate"
    /\ UNCHANGED <<tokens, env, out, parseVars, escVars, crateVars>>

\* html!: `parse_macro_input!` got an Err and returns `err.to_compile_error()`
html_error ==
    /\ p_state = "error" /\ pc = "idle"
    /\ tokens' = <<[k |-> CompileError, err |-> p_err[1]]>>
    /\ pc' = "error"
    /\ UNCHANGED <<group, work, streams, env, out, parseVars, escVars, crateVars>>

NextParse ==
    \/ parse_node
    \/ parse_end
    \/ html_generate
    \/ html_error
    \/ push_char
    \/ push_raw
    \/ push_escaped
    \/ push_tokens
    \/ push_write
    \/ push_braced_new
    \/ push_braced_push
    \/ to_token_stream

SpecParse == InitParse /\ [][NextParse]_vars

(***************************************************************************)
(* C5                                                                      *)
(***************************************************************************)
NameLed(toks) == Peek(toks, "LitStr") \/ Peek(toks, "Ident")

\* the position of the token after the Name, or after the Name's attribute group
AfterName(toks) == IF PeekN(toks, 2, "Bracket") THEN 3 ELSE 2

ElementAhead(toks) ==
    PeekN(toks, AfterName(toks), "Brace") \/ PeekN(toks, AfterName(toks), ";")

NameOf(tok) == IF tok.t = "LitStr" THEN LitName(tok.s) ELSE Ident(tok.s)

ParsesNameNode == p_state = "parsing" /\ p_input # <<>> /\ NameLed(p_input)

ProducedElement ==
    /\ p_state' = "parsing"
    /\ Len(p_nodes') = Len(p_nodes) + 1
    /\ SubSeq(p_nodes', 1, Len(p_nodes)) = p_nodes
    /\ LET node == p_nodes'[Len(p_nodes')]
       IN  /\ node.k = "Element"
           /\ node.element.name = NameOf(p_input[1])
           /\ node.element.k = "Void" <=> PeekN(p_input, AfterName(p_input), ";")
    /\ p_input' = SubSeq(p_input, AfterName(p_input) + 1, Len(p_input))

ConsumedAsText ==
    /\ p_state' = "parsing"
    /\ p_nodes' = Append(p_nodes, Literal(p_input[1].s))
    /\ p_input' = Tail(p_input)

Rejected == p_state' = "error" /\ p_nodes' = p_nodes /\ p_err' # None

RejectedAtName ==
    /\ Rejected
    /\ p_err' = Some([at |-> p_input, expected |-> {"LitStr"}])

NameDispatch(Otherwise) ==
    ParsesNameNode =>
        IF ElementAhead(p_input) THEN ProducedElement \/ Rejected ELSE Otherwise

\* C5 as stated: a Node that begins with a Name becomes an Element exactly when
\* the token after the Name, or after its bracketed attribute group, is `{` or
\* `;`; otherwise the Name, string literal or bare identifier, is consumed as a
\* literal-text Node and parsing continues.
C5_NameConsumedAsText == [][NameDispatch(ConsumedAsText)]_vars

\* C5, amended: a Node that begins with a Name becomes an Element exactly when
\* the token after the Name, or after its bracketed attribute group, is `{` or
\* `;`; otherwise a string-literal Name is consumed as a literal-text Node and
\* parsing continues, and a bare identifier is rejected with an error at that
\* identifier which expects a string literal.
C5_IdentifierRejected ==
    [][NameDispatch(IF p_input[1].t = "LitStr" THEN ConsumedAsText ELSE RejectedAtName)]_vars

C5_Witness ==
    /\ p_state = "error"
    /\ p_nodes = <<Literal(Hi), Void(Ident(PName), None)>>
    /\ p_input = <<IdentTok(PName)>>
    /\ p_err = Some([at |-> p_input, expected |-> {"LitStr"}])

(***************************************************************************)
(* C11                                                                     *)
(***************************************************************************)
\* how many tokens the Void element at the head of toks takes: Name `;`, or
\* Name, bracketed Attrs, `;`; 0 when toks does not begin with a Void element
VoidLen(toks) ==
    IF NameLed(toks) /\ PeekN(toks, 2, ";") THEN 2
    ELSE IF NameLed(toks) /\ PeekN(toks, 2, "Bracket") /\ PeekN(toks, 3, ";") THEN 3
    ELSE 0

\* a Void element directly followed by `{`
VoidWithBody(toks) == VoidLen(toks) > 0 /\ PeekN(toks, VoidLen(toks) + 1, "Brace")

\* the stream from the `{` that follows the Void element on
FromBody(toks) == SubSeq(toks, VoidLen(toks) + 1, Len(toks))

RECURSIVE VoidsChildless(_)
VoidsChildless(g) ==
    \A i \in 1..Len(g) :
        CASE g[i].k = "Element" ->
               IF g[i].element.k = "Void"
               THEN DOMAIN g[i].element = {"k", "name", "attrs"}
               ELSE g[i].element.inner = None \/ VoidsChildless(g[i].element.inner[1])
          [] g[i].k = "Interp" ->
               CASE g[i].value.k = "If" ->
                      /\ VoidsChildless(g[i].value.then_branch)
                      /\ \A j \in 1..Len(g[i].value.else_if) :
                            VoidsChildless(g[i].value.else_if[j].group)
                      /\ \A j \in 1..Len(g[i].value.else_branch) :
                            VoidsChildless(g[i].value.else_branch[j].group)
                 [] g[i].value.k = "Match" ->
                      \A j \in 1..Len(g[i].value.arms) :
                          g[i].value.arms[j].expr.k = "Group" =>
                              VoidsChildless(g[i].value.arms[j].expr.group)
                 [] g[i].value.k = "For" -> VoidsChildless(g[i].value.body)
                 [] OTHER -> TRUE
          [] OTHER -> TRUE

RejectedAt(at) ==
    /\ Rejected
    /\ p_err' = Some([at |-> at, expected |-> {"LitStr", "Ident", "@"}])

\* the Void element at the head of the input is parsed and the `{` is left unread
VoidParsed ==
    /\ p_state' = "parsing"
    /\ Len(p_nodes') = Len(p_nodes) + 1
    /\ p_nodes'[Len(p_nodes')].k = "Element"
    /\ p_nodes'[Len(p_nodes')].element.k = "Void"
    /\ p_input' = FromBody(p_input)

LastIsVoid ==
    /\ p_nodes # <<>>
    /\ p_nodes[Len(p_nodes)].k = "Element"
    /\ p_nodes[Len(p_nodes)].element.k = "Void"

VoidBodyRejected ==
    /\ (p_state = "parsing" /\ VoidWithBody(p_input)) => (VoidParsed \/ Rejected)
    /\ (p_state = "parsing" /\ LastIsVoid /\ Peek(p_input, "Brace")) => RejectedAt(p_input)
    /\ (p_state = "parsing" /\ NameLed(p_input) /\ Peek2(p_input, "Brace")
          /\ VoidWithBody(p_input[2].inner)) =>
            /\ Rejected
            /\ VoidLen(p_input[2].inner) = 2 =>
                  p_err' = Some([at |-> FromBody(p_input[2].inner),
                                 expected |-> {"LitStr", "Ident", "@"}])
    /\ VoidsChildless(p_nodes')

\* C11: a Void element cannot be given a body: after Name, optional Attrs and
\* `;` a following `{` is rejected with an error at that `{`, at the top level
\* and inside an element's body, and no Void element of the parsed Group has
\* children.
C11_VoidHasNoBody == [][VoidBodyRejected]_vars

C11_Witness ==
    /\ p_state = "error"
    /\ p_nodes = <<Void(LitName(Hi), Attrs(<<Attr(Ident(Id), None)>>))>>
    /\ p_input = <<BraceTok(<<LitStrTok(Lo)>>)>>
    /\ p_err = Some([at |-> p_input, expected |-> {"LitStr", "Ident", "@"}])

(***************************************************************************)
(* C12                                                                     *)
(***************************************************************************)
\* the generator has not been started
GeneratorIdle == group = <<>> /\ work = <<>> /\ streams = <<>> /\ pc \in {"idle", "error"}

\* what the macro is left with after a failed and after a successful parse
AllOrNothing ==
    /\ p_state = "error" =>
          /\ Len(p_err) = 1
          /\ GeneratorIdle
          /\ pc = "error" => tokens = <<[k |-> CompileError, err |-> p_err[1]]>>
    /\ p_state # "error" => p_err = None
    /\ pc \notin {"idle", "error"} =>
          p_state = "ok" /\ p_input = <<>> /\ group = p_nodes

\* the parse of the rest of the input, from the Nodes already in `v`
Whole == ParseGroup(p_input, p_nodes)

\* the first error is the error of the whole parse, and is raised on the step
\* that meets it, with nothing consumed
FirstErrorReturned ==
    p_state = "parsing" /\ p_input # <<>> =>
        IF Whole.ok
        THEN p_state' = "parsing" /\ p_err' = None
        ELSE \/ /\ p_state' = "parsing"
                /\ ParseGroup(p_input', p_nodes') = Whole
                /\ Len(p_input') < Len(p_input)
             \/ /\ p_state' = "error"
                /\ p_err' = Some([at |-> Whole.at, expected |-> Whole.expected])
                /\ p_input' = p_input /\ p_nodes' = p_nodes

\* the tokens behind the offending one are not read: without them the Node
\* fails in the same way
RestUnread ==
    p_state = "parsing" /\ p_state' = "error" =>
        \A i \in 1..Len(p_input) :
            p_err'[1].at = SubSeq(p_input, i, Len(p_input)) =>
                \E cut \in {ParseNode(SubSeq(p_input, 1, i))} :
                    /\ ~cut.ok
                    /\ cut.expected = p_err'[1].expected
                    /\ cut.at = <<p_input[i]>>

\* after the error nothing more is parsed and no second error replaces it
ErrorIsFinal == p_state = "error" => UNCHANGED parseVars

\* C12: parsing is fail-fast and all-or-nothing: the first token that does not
\* match the grammar, at any nesting depth, ends the whole parse with that one
\* error; nothing further is consumed, no second error is collected, no
\* partial Group is returned and the generator never runs on a partly parsed
\* template.
C12_FailFast ==
    /\ []AllOrNothing
    /\ [][FirstErrorReturned /\ RestUnread /\ ErrorIsFinal]_vars

C12_Witness ==
    /\ pc = "error"
    /\ p_nodes = <<Literal(Hi)>>
    /\ Len(p_input) = 3
    /\ p_err = Some([at |-> <<BraceTok(<<>>)>>, expected |-> {"LitStr", "Ident", "@"}])
    /\ tokens = <<[k |-> CompileError, err |-> p_err[1]]>>
    /\ GeneratorIdle

(***************************************************************************)
(* C13                                                                     *)
(***************************************************************************)
Called(op) == Calling(op) /\ work' = Tail(work)

\* a body starts on a Stream of its own, empty, and its parent has no text buffered
FreshBody ==
    Called("braced_new") =>
        /\ streams' = Append(streams, [stream |-> <<>>, buffer |-> <<>>])
        /\ streams[Top].buffer = <<>>

\* while a body is generated no Stream but its own changes
ParentsUntouched ==
    (pc = "generate" /\ Len(streams') >= Len(streams)) =>
        \A i \in 1..(Top - 1) : streams'[i] = streams[i]

\* the text left in the body's buffer is flushed as the last instruction inside
\* the body's braces, and the parent gains the braced body and nothing else
BodyClosed ==
    Called("braced_push") =>
        LET parent == streams[Top - 1]
            body == streams[Top]
            closed == streams'[Top - 1]
        IN  /\ Len(streams') = Top - 1
            /\ parent.buffer = <<>> /\ closed.buffer = <<>>
            /\ Len(closed.stream) = Len(parent.stream) + 1
            /\ SubSeq(closed.stream, 1, Len(parent.stream)) = parent.stream
            /\ closed.stream[Len(closed.stream)].k = "braced"
            /\ LET inside == closed.stream[Len(closed.stream)].body
               IN  IF body.buffer = <<>> THEN inside = body.stream
                   ELSE /\ Len(inside) = Len(body.stream) + 1
                        /\ SubSeq(inside, 1, Len(body.stream)) = body.stream
                        /\ IsFlush(inside[Len(inside)])
                        /\ FlushText(inside[Len(inside)]) = body.buffer

\* the branch of an if chain that is taken
RECURSIVE TakenElse(_, _, _)
TakenElse(eis, el, en) ==
    IF eis = <<>> THEN (IF el = None THEN <<>> ELSE el[1].group)
    ELSE IF Eval(Head(eis).cond, en).v THEN Head(eis).group
    ELSE TakenElse(Tail(eis), el, en)

Taken(i, en) ==
    IF Eval(i.cond, en).v THEN i.then_branch ELSE TakenElse(i.else_if, i.else_branch, en)

IsIf(node) == node.k = "Interp" /\ node.value.k = "If"

\* the output with every if chain of the Group replaced by its taken branch
TakenOutput(g, en) ==
    Concat([i \in 1..Len(g) |->
              IF IsIf(g[i]) THEN Output(Taken(g[i].value, en), en) ELSE NodeOutput(g[i], en)])

\* C13: every if / else-if / else / arm / for body is generated into a fresh
\* Stream of its own, whose remaining buffer is flushed inside the body's
\* braces; no text of a body reaches a flush of its parent or of a sibling;
\* and rendering an if chain appends the output of the taken branch only.
C13_BodiesHaveOwnStream ==
    /\ [][FreshBody /\ ParentsUntouched /\ BodyClosed]_vars
    /\ [](Rendered => out = TakenOutput(group, env))

C13_Witness ==
    /\ Rendered
    /\ Len(group) = 2
    /\ group[1] = Literal(Hi)
    /\ IsIf(group[2]) /\ group[2].value.else_if # <<>> /\ group[2].value.else_branch # None
    /\ Taken(group[2].value, env) = group[2].value.else_if[1].group
    /\ Len(tokens) = 7
    /\ out = Hi \o Output(group[2].value.else_if[1].group, env)

(***************************************************************************)
(* C14                                                                     *)
(***************************************************************************)
\* C14: code generation is total: for every Group the parser returns,
\* to_token_stream ends with an output program and has no abort path.
C14_GenerationTotal == p_state = "ok" => pc # "panic"

C14_Witness ==
    /\ pc = "panic"
    /\ p_state = "ok"
    /\ group = <<Literal(Hi)>>
    /\ work = <<>>
    /\ found = NotFound

(***************************************************************************)
(* CrateIdent::to_tokens under concurrent users.  OnceLock::get_or_init    *)
(* returns the value when the cell is set; otherwise one caller at a time  *)
(* runs the closure while the others block, and a closure that panics      *)
(* leaves the cell unset for the next caller.                              *)
(***************************************************************************)
Users == 1..MaxUsers

InitCrate ==
    /\ found \in Lookups
    /\ Unset
    /\ c_pc = [t \in Users |-> "idle"]
    /\ c_seen = [t \in Users |-> <<>>]
    /\ IdleGen
    /\ IdleEsc
    /\ IdleParse

\* a caller that ran no closure of its own: nobody excludes anybody
OnceNeverRunning == FALSE

\* the Once of the OnceLock is RUNNING: some caller is inside the closure
OnceRunning == \E t \in Users : c_pc[t] = "running"

\* `Ident::new(&crate_name, ..)` with the name get_or_init returned
Handed(t, crate_name) ==
    /\ c_seen' = [c_seen EXCEPT ![t] = Append(@, crate_name)]
    /\ c_pc' = [c_pc EXCEPT ![t] = "idle"]

\* `CRATE_NAME.get_or_init(..)` is called
get_or_init(t) ==
    /\ c_pc[t] = "idle"
    /\ Len(c_seen[t]) < MaxUses
    /\ IF CRATE_NAME # None THEN Handed(t, CRATE_NAME[1])
       ELSE /\ c_pc' = [c_pc EXCEPT ![t] = IF OnceRunning THEN "waiting" ELSE "running"]
            /\ UNCHANGED c_seen
    /\ UNCHANGED <<found, CRATE_NAME, c_inits, genVars, escVars, parseVars>>

\* the closure: `match proc_macro_crate::crate_name("avosetta").unwrap() { .. }`
init_closure(t) ==
    /\ c_pc[t] = "running"
    /\ IF found = NotFound
       THEN /\ c_pc' = [c_pc EXCEPT ![t] = "panicked"]
            /\ UNCHANGED <<CRATE_NAME, c_inits, c_seen>>
       ELSE /\ CRATE_NAME' = Some(CrateName(found))
            /\ c_inits' = c_inits + 1
            /\ Handed(t, CrateName(found))
    /\ UNCHANGED <<found, genVars, escVars, parseVars>>

\* a blocked caller goes on once no closure is running
wake(t) ==
    /\ c_pc[t] = "waiting"
    /\ ~OnceRunning
    /\ IF CRATE_NAME # None THEN Handed(t, CRATE_NAME[1])
       ELSE c_pc' = [c_pc EXCEPT ![t] = "running"] /\ UNCHANGED c_seen
    /\ UNCHANGED <<found, CRATE_NAME, c_inits, genVars, escVars, parseVars>>

\* the manifest that crate_name reads is edited between two lookups
manifest_changes ==
    /\ \E r \in Lookups \ {found} : found' = r
    /\ UNCHANGED <<CRATE_NAME, c_inits, c_pc, c_seen, genVars, escVars, parseVars>>

NextCrate ==
    \/ \E t \in Users : get_or_init(t)
    \/ \E t \in Users : init_closure(t)
    \/ \E t \in Users : wake(t)
    \/ manifest_changes

SpecCrate == InitCrate /\ [][NextCrate]_vars

(***************************************************************************)
(* C15                                                                     *)
(***************************************************************************)
SetOnce ==
    /\ c_inits <= 1
    /\ CRATE_NAME = None <=> c_inits = 0
    /\ \A t \in Users : \A i \in 1..Len(c_seen[t]) :
          CRATE_NAME # None /\ c_seen[t][i] = CRATE_NAME[1]

\* set by a user's first call, and never again
LazyAndFinal ==
    /\ CRATE_NAME # None => CRATE_NAME' = CRATE_NAME
    /\ (CRATE_NAME = None /\ CRATE_NAME' # None) =>
          \E t \in Users : c_pc[t] = "running" /\ c_seen[t] = <<>> /\ Len(c_seen'[t]) = 1

\* C15: CRATE_NAME is resolved lazily, on first use, at most once under every
\* interleaving of concurrent users; once set, every read in every thread
\* observes that value, and it is never recomputed or overwritten.
C15_CrateNameSetOnce == []SetOnce /\ [][LazyAndFinal]_vars

C15_Witness ==
    /\ CRATE_NAME = Some("avosetta")
    /\ found = Name("html")
    /\ c_inits = 1
    /\ \A t \in Users : Len(c_seen[t]) = MaxUses
    /\ \E t \in Users : c_pc[t] = "panicked" \/ c_seen[t][1] = "avosetta"

(***************************************************************************)
(* C16                                                                     *)
(***************************************************************************)
\* the attribute with its dynamic value folded into the literal of the value;
\* the literal `false` stands for a value that is None
Folded(attr, en) ==
    IF attr.value # None /\ attr.value[1].e = "var"
    THEN LET v == Eval(attr.value[1], en)
         IN  CASE v.t = "str" -> Attr(attr.name, Some(LitStrExpr(v.v)))
               [] v.t = "bool" -> Attr(attr.name, Some(LitBoolExpr(v.v)))
               [] v.t = "none" -> Attr(attr.name, Some(LitBoolExpr(FALSE)))
               [] OTHER -> attr
    ELSE attr

FoldedText(l, en) == Concat([i \in 1..Len(l) |-> StaticAttrText(Folded(l[i], en))])

HasDynamicAttr(l) == \E i \in 1..Len(l) : l[i].value # None /\ l[i].value[1].e = "var"

\* C16: an element renders the same bytes with the dynamic attribute `name=e`
\* as with the literal attribute `name=v`, for e evaluating to the string, true
\* or false v; a dynamic false or None leaves no bytes in the opening tag.
C16_DynamicAsLiteral ==
    /\ Rendered /\ Len(group) = 1 /\ group[1].k = "Element"
    /\ group[1].element.k = "Void" /\ group[1].element.attrs # None
    /\ env["x"].t \in {"str", "bool", "none"}
    => LET l == group[1].element.attrs[1].inner
       IN  out = <<"<">> \o group[1].element.name.s \o FoldedText(l, env) \o <<">">>

\* `p[id = x];` with x false renders `<p >`, and `p[id = false];` renders `<p>`
C16_Witness ==
    /\ Rendered
    /\ group = <<Void(P, Attrs(<<Attr(Ident(<<"i", "d">>), Some(Var("x")))>>))>>
    /\ env["x"] = Bool(FALSE)
    /\ out = <<"<", "p", " ", ">">>
    /\ Output(<<Void(P, Attrs(<<Attr(Ident(<<"i", "d">>), Some(LitBoolExpr(FALSE)))>>))>>, env)
         = <<"<", "p", ">">>

(***************************************************************************)
(* C17                                                                     *)
(***************************************************************************)
RECURSIVE WellFlushed(_)
WellFlushed(toks) ==
    \A i \in 1..Len(toks) :
        /\ IsFlush(toks[i]) =>
              /\ FlushText(toks[i]) # <<>>
              /\ i = Len(toks) \/ ~IsFlush(toks[i + 1])
        /\ toks[i].k = "braced" => WellFlushed(toks[i].body)

\* a flush that the final emission appends would not follow another flush
EndsUnflushed(toks) == toks = <<>> \/ ~IsFlush(toks[Len(toks)])

\* C17: in the instruction list of every Stream, top-level or nested, during
\* generation and after the final emission, no flush carries an empty literal
\* and no flush is directly followed by another flush.
C17_NoEmptyNoAdjacentFlush ==
    /\ \A i \in 1..Len(streams) :
          WellFlushed(streams[i].stream) /\ EndsUnflushed(streams[i].stream)
    /\ WellFlushed(tokens)

C17_Witness ==
    /\ Generated
    /\ Len(tokens) >= 4
    /\ IsFlush(tokens[Len(tokens)])
    /\ \E i \in 1..Len(tokens) :
          /\ tokens[i].k = "braced"
          /\ tokens[i].body # <<>>
          /\ IsFlush(tokens[i].body[Len(tokens[i].body)])
    /\ Count(Flat(tokens), IsFlush) >= 3

(***************************************************************************)
(* C18                                                                     *)
(***************************************************************************)
Headers == {"if", "elseif", "else", "match", "arm", "for"}

\* the body of a match block: `pattern =>` headers and braced bodies in turn
ArmLevel(toks) ==
    /\ Len(toks) % 2 = 0
    /\ \A i \in 1..Len(toks) : toks[i].k = (IF i % 2 = 1 THEN "arm" ELSE "braced")

RECURSIVE ChainIntact(_)
ChainIntact(toks) ==
    \A i \in 1..Len(toks) :
        /\ toks[i].k \in Headers => (i < Len(toks) /\ toks[i + 1].k = "braced")
        /\ toks[i].k \in {"elseif", "else"} =>
              (i > 2 /\ toks[i - 1].k = "braced" /\ toks[i - 2].k \in {"if", "elseif"})
        /\ toks[i].k = "arm" => ArmLevel(toks)
        /\ (toks[i].k = "braced" /\ i > 1 /\ toks[i - 1].k = "match") => ArmLevel(toks[i].body)
        /\ toks[i].k = "braced" => ChainIntact(toks[i].body)

\* nothing is buffered when a chain continues, an arm starts or a body opens
HeaderOnEmptyBuffer ==
    /\ (Called("push_tokens") /\ Head(work).a.k \in {"elseif", "else", "arm"}) =>
          /\ streams[Top].buffer = <<>>
          /\ Len(streams'[Top].stream) = Len(streams[Top].stream) + 1
    /\ Called("braced_new") => streams[Top].buffer = <<>>
    /\ Called("braced_push") =>
          Len(streams'[Top - 1].stream) = Len(streams[Top - 1].stream) + 1

\* C18: the literal buffer is empty whenever an `else if` / `else` header or a
\* match arm header is emitted, so no flush stands between an if block and its
\* else-if / else, between a control-flow header and its braced body, or at the
\* arm level of a match block, which holds `pattern =>` headers and braced
\* bodies only.
C18_ChainsIntact ==
    /\ [][HeaderOnEmptyBuffer]_vars
    /\ []ChainIntact(tokens)

C18_Witness ==
    /\ Generated
    /\ \E i \in 1..Len(tokens) : tokens[i].k = "elseif"
    /\ \E i \in 1..Len(tokens) : tokens[i].k = "else"
    /\ \E i \in 1..Len(tokens) :
          tokens[i].k = "match" /\ Len(tokens[i + 1].body) = 6

====
